---------------------------- MODULE Spec2Model ----------------------------
(***************************************************************************)
(* A model of bmxtract's rendering library (packages/lib/src): the BMS     *)
(* chart (bms.rs), the tempo map and the event scheduler (timeline.rs),    *)
(* the chunked mixer (mixer.rs) and the orchestrator convert_bms_to_wav    *)
(* (wasm.rs).                                                              *)
(*                                                                         *)
(* Conventions.                                                            *)
(*  - Option<T> is a sequence of length 0 (None) or 1 (Some).              *)
(*  - A Vec is a sequence; a 0-based Rust index i is element i + 1.        *)
(*  - f32 samples are integers: the mixer only adds them, and the sums of  *)
(*    the model are exact.                                                 *)
(*  - The sample rate MIX_SR is scaled down, so that a chunk is a few      *)
(*    samples long and chunk boundaries are reached.                       *)
(***************************************************************************)
EXTENDS Integers, Sequences, FiniteSets, TLC

VARIABLES
    pc,              \* position of the running pipeline
    bms_text,        \* the chart text: its lines
    use_float32,     \* convert_bms_to_wav's output format flag
    bms,             \* the parsed chart (Bms)
    tempo_map,       \* TempoMap built from bms
    queried,         \* the last get_timestamp call: its arguments and its result
    sound_events,    \* Vec<SoundEvent>
    ln_56_active,    \* extract_sound_events: channel -> active long note (type 2)
    ln_56_open_ids,  \* extract_sound_events: channel -> set of open ids (type 1)
    cursor,          \* extract_sound_events: number of messages walked
    decoded,         \* decoded_vec: Vec<(Vec<f32>, usize)>
    prepared,        \* Prepared { events, total_len }
    bucketed,        \* buckets of bucketize_events
    pre,             \* Vec<Vec<OverlapSlice>> of precompute_overlaps
    mixed,           \* chunk index -> Option<mixed chunk>
    fetched,         \* what get_many_bytes and decode_audio gave for each requested path
    chan,            \* the mpsc channel of (ci, buffer) pairs
    pending,         \* chunks received ahead of next_ci
    next_ci,         \* the next chunk index to emit
    emitted,         \* number of chunks emitted
    on_chunk_calls,  \* what on_chunk received, in order
    on_progress_calls, \* the progress values on_progress received, in order
    result           \* the value convert_bms_to_wav returned

chartVars == <<bms_text, use_float32, bms, tempo_map, queried>>
schedVars == <<sound_events, ln_56_active, ln_56_open_ids, cursor>>
mixVars == <<decoded, prepared, bucketed, pre, mixed>>
outVars == <<fetched, chan, pending, next_ci, emitted, on_chunk_calls, on_progress_calls, result>>
vars == <<pc, chartVars, schedVars, mixVars, outVars>>

None == <<>>
Some(x) == <<x>>
IsSome(o) == Len(o) = 1
Unwrap(o) == o[1]
UnwrapOr(o, d) == IF Len(o) = 1 THEN o[1] ELSE d

\* report_progress(on_progress, progress, stage): an error of the callback is ignored
ReportProgress(calls, progress) == Append(calls, progress)

Min2(a, b) == IF a <= b THEN a ELSE b
Max2(a, b) == IF a >= b THEN a ELSE b

RECURSIVE Reverse(_)
Reverse(s) == IF s = <<>> THEN <<>> ELSE Append(Reverse(Tail(s)), Head(s))

RECURSIVE SumSeq(_)
SumSeq(s) == IF s = <<>> THEN 0 ELSE Head(s) + SumSeq(Tail(s))

(***************************************************************************)
(* audio.rs / mixer.rs constants                                           *)
(***************************************************************************)
\* crate::audio::MIX_CH: interleaved stereo.
MIX_CH == 2
\* crate::audio::MIX_SR is 44100; the model mixes at a scaled-down rate.
MIX_SR == 5
CHUNK_SIZE_SECONDS == 1
\* mixer.rs: let chunk_samples = MIX_SR as usize * MIX_CH * CHUNK_SIZE_SECONDS
chunk_samples == MIX_SR * MIX_CH * CHUNK_SIZE_SECONDS
\* wide::f32x8
Lanes == 8

(***************************************************************************)
(* mixer.rs: prepare_events                                                *)
(***************************************************************************)
EventRef(k, s, e) == [key_id |-> k, start |-> s, end |-> e]

\* mutant of NaturalEnd: the channel count applied twice
NaturalEndTwice(start_sample, frames) == start_sample + frames * MIX_CH * MIX_CH

\* let natural_end = start_sample + (*frames) * MIX_CH
NaturalEnd(start_sample, frames) == start_sample + frames * MIX_CH

\* first loop: natural end, explicit end, drop of empty events
RECURSIVE PreEvents(_, _)
PreEvents(evs, dec) ==
    IF evs = <<>> THEN <<>>
    ELSE LET ev == Head(evs)
             frames == dec[ev.key_id + 1].frames
             natural_end == NaturalEnd(ev.start, frames)
             end_sample == UnwrapOr(ev.end, natural_end)
             rest == PreEvents(Tail(evs), dec)
         IN  IF end_sample > ev.start
             THEN <<EventRef(ev.key_id, ev.start, end_sample)>> \o rest
             ELSE rest

\* mutant of MaxEnd: only the first pushed event is looked at
MaxEndFirst(evs) == IF evs = <<>> THEN 0 ELSE Head(evs).end

\* total_len: the largest end_sample pushed by the first loop
RECURSIVE MaxEnd(_)
MaxEnd(evs) == IF evs = <<>> THEN 0 ELSE Max2(Head(evs).end, MaxEnd(Tail(evs)))

\* pre_events.sort_by(|a, b| a.start.cmp(&b.start)): a stable sort
RECURSIVE InsertByStart(_, _)
InsertByStart(sorted, ev) ==
    IF sorted = <<>> THEN <<ev>>
    ELSE IF Head(sorted).start <= ev.start
         THEN <<Head(sorted)>> \o InsertByStart(Tail(sorted), ev)
         ELSE <<ev>> \o sorted

RECURSIVE SortByStart(_)
SortByStart(evs) ==
    IF evs = <<>> THEN <<>>
    ELSE InsertByStart(SortByStart(SubSeq(evs, 1, Len(evs) - 1)), evs[Len(evs)])

\* mutant of TruncatedEnd: the end is never truncated
TruncatedEndKept(ev, next_start_for_key) == ev.end

\* if let Some(&next_start) = next_start_for_key.get(&ev.key_id) && next_start < ev.end
TruncatedEnd(ev, next_start_for_key) ==
    IF ev.key_id \in DOMAIN next_start_for_key /\ next_start_for_key[ev.key_id] < ev.end
    THEN next_start_for_key[ev.key_id]
    ELSE ev.end

\* second loop: for ev in pre_events.iter().rev(); yields final_events before the reverse
RECURSIVE TruncateRev(_, _, _)
TruncateRev(pre_events, i, next_start_for_key) ==
    IF i = 0 THEN <<>>
    ELSE LET ev == pre_events[i]
             truncated_end == TruncatedEnd(ev, next_start_for_key)
             nmap == [k \in DOMAIN next_start_for_key \cup {ev.key_id} |->
                         IF k = ev.key_id THEN ev.start ELSE next_start_for_key[k]]
             rest == TruncateRev(pre_events, i - 1, nmap)
         IN  IF truncated_end > ev.start
             THEN <<EventRef(ev.key_id, ev.start, truncated_end)>> \o rest
             ELSE rest

EmptyMap == [k \in {} |-> 0]

prepare_events(evs, dec) ==
    LET pushed == PreEvents(evs, dec)
        pre_events == SortByStart(pushed)
        final_events == TruncateRev(pre_events, Len(pre_events), EmptyMap)
    IN  [events |-> Reverse(final_events), total_len |-> MaxEnd(pushed)]

(***************************************************************************)
(* mixer.rs: bucketize_events                                              *)
(***************************************************************************)
DivFloor(a, b) == a \div b
DivCeil(a, b) == (a + b - 1) \div b
SaturatingSub(a, b) == IF a >= b THEN a - b ELSE 0

RECURSIVE BucketizeFrom(_, _, _)
BucketizeFrom(events, idx, buckets) ==
    IF idx >= Len(events) THEN buckets
    ELSE LET ev == events[idx + 1]
             start_chunk == ev.start \div chunk_samples
             end_chunk == SaturatingSub(ev.end, 1) \div chunk_samples
         IN  BucketizeFrom(events, idx + 1,
                 [c \in DOMAIN buckets |->
                     IF c - 1 >= start_chunk /\ c - 1 < start_chunk + (end_chunk + 1 - start_chunk)
                     THEN Append(buckets[c], idx)
                     ELSE buckets[c]])

\* returns buckets; chunk_count is its length
bucketize_events(events, total_len) ==
    LET chunk_count == DivCeil(total_len, chunk_samples)
    IN  BucketizeFrom(events, 0, [c \in 1..chunk_count |-> <<>>])

(***************************************************************************)
(* mixer.rs: precompute_overlaps                                           *)
(***************************************************************************)
\* mutant of OverlapSlice: the offset into the source is not recorded
OverlapSliceFromZero(e, s, d, l) == [ev_idx |-> e, src_off |-> 0, dst_off |-> d, len |-> l]

OverlapSlice(e, s, d, l) == [ev_idx |-> e, src_off |-> s, dst_off |-> d, len |-> l]

\* mutant of SlicesOf: the overlap is not clamped to the end of the source
RECURSIVE SlicesOfUnclamped(_, _, _, _, _)
SlicesOfUnclamped(bucket, events, dec, start, end) ==
    IF bucket = <<>> THEN <<>>
    ELSE LET ev_idx == Head(bucket)
             ev == events[ev_idx + 1]
             overlap_start == IF start > ev.start THEN start ELSE ev.start
             overlap_end == IF end < ev.end THEN end ELSE ev.end
             rest == SlicesOfUnclamped(Tail(bucket), events, dec, start, end)
         IN  IF overlap_start >= overlap_end
             THEN rest
             ELSE <<[ev_idx |-> ev_idx, src_off |-> overlap_start - ev.start,
                     dst_off |-> overlap_start - start,
                     len |-> overlap_end - overlap_start]>> \o rest

RECURSIVE SlicesOf(_, _, _, _, _)
SlicesOf(bucket, events, dec, start, end) ==
    IF bucket = <<>> THEN <<>>
    ELSE LET ev_idx == Head(bucket)
             ev == events[ev_idx + 1]
             src_len == Len(dec[ev.key_id + 1].buf)
             overlap_start == Max2(start, ev.start)
             sample_end == ev.start + src_len
             overlap_end == Min2(Min2(end, ev.end), sample_end)
             rest == SlicesOf(Tail(bucket), events, dec, start, end)
         IN  IF overlap_start >= overlap_end
             THEN rest
             ELSE <<OverlapSlice(ev_idx, overlap_start - ev.start,
                                 overlap_start - start,
                                 overlap_end - overlap_start)>> \o rest

precompute_overlaps(events, dec, bkts, total_len) ==
    [c \in 1..Len(bkts) |->
        LET start == (c - 1) * chunk_samples
            end == Min2(start + chunk_samples, total_len)
        IN  SlicesOf(bkts[c], events, dec, start, end)]

(***************************************************************************)
(* mixer.rs: mix_chunk                                                     *)
(***************************************************************************)
\* n & !7
RoundDownLanes(n) == n - (n % Lanes)

\* mutant of AddSlice: the scalar tail after the f32x8 blocks is skipped
AddSliceNoTail(buf, src, sl) ==
    LET n8 == RoundDownLanes(sl.len)
    IN  [j \in 1..Len(buf) |->
            LET i == (j - 1) - sl.dst_off
            IN  IF i >= 0 /\ i < n8 THEN buf[j] + src[sl.src_off + i + 1] ELSE buf[j]]

\* one overlap slice added into the chunk buffer: whole f32x8 blocks, then the scalar tail
AddSlice(buf, src, sl) ==
    LET n == sl.len
        n8 == RoundDownLanes(n)
    IN  [j \in 1..Len(buf) |->
            LET i == (j - 1) - sl.dst_off
            IN  IF i >= 0 /\ i < n8 THEN buf[j] + src[sl.src_off + i + 1]
                ELSE IF i >= n8 /\ i < n THEN buf[j] + src[sl.src_off + i + 1]
                ELSE buf[j]]

\* &mut buf[dst_off..dst_off + len] and &src[src_off..src_off + len] are in bounds
SliceInBounds(buf, src, sl) ==
    /\ sl.dst_off + sl.len <= Len(buf)
    /\ sl.src_off + sl.len <= Len(src)

RECURSIVE MixSlices(_, _, _, _)
MixSlices(buf, slices, events, dec) ==
    IF slices = <<>> THEN buf
    ELSE LET sl == Head(slices)
             src == dec[events[sl.ev_idx + 1].key_id + 1].buf
         IN  MixSlices(AddSlice(buf, src, sl), Tail(slices), events, dec)

mix_chunk(ci, events, dec, precomputed, total_len) ==
    LET start == ci * chunk_samples
        end == Min2(start + chunk_samples, total_len)
    IN  MixSlices([j \in 1..(end - start) |-> 0], precomputed[ci + 1], events, dec)

AllInBounds(len, slices, events, dec) ==
    \A k \in 1..Len(slices) :
        SliceInBounds([j \in 1..len |-> 0], dec[events[slices[k].ev_idx + 1].key_id + 1].buf, slices[k])

(***************************************************************************)
(* The mixer's inputs: decoded sources and scheduled events                *)
(***************************************************************************)
\* bounds of the mixer's inputs
MaxEvents == 3
MaxSrcLen == 12
ExplicitSpan == 5

\* the sample at index i of source key_id: distinct, positive values
SampleVal(key_id, i) == (key_id + 1) * 100 + i

\* decode_audio's result for a source of len samples: (out_resampled, out_resampled.len() / target_ch)
Decoded(key_id, len) ==
    [buf |-> [i \in 1..len |-> SampleVal(key_id, i - 1)], frames |-> len \div MIX_CH]

SourceLens == {0, 3, MaxSrcLen}
KeyIds == {0, 1}
DecodedVecs == {<<Decoded(0, l0), Decoded(1, l1)>> : l0 \in SourceLens, l1 \in SourceLens}

SoundEvent(k, s, e) == [key_id |-> k, start |-> s, end |-> e]
Starts == {0, 4, chunk_samples}
MixSoundEvents ==
    {SoundEvent(k, s, e) : k \in KeyIds, s \in Starts, e \in {None}}
    \cup {SoundEvent(k, s, Some(s + ExplicitSpan)) : k \in KeyIds, s \in Starts}

RECURSIVE SeqsUpTo(_, _)
SeqsUpTo(S, n) ==
    IF n = 0 THEN {<<>>}
    ELSE LET shorter == SeqsUpTo(S, n - 1)
         IN  shorter \cup {Append(q, x) : q \in {r \in shorter : Len(r) = n - 1}, x \in S}

NoBms == [none |-> TRUE]
NoTempoMap == [none |-> TRUE]
NoQuery == [none |-> TRUE]
NoPrepared == [events |-> <<>>, total_len |-> 0]
Running == "running"

\* the state of the stages that have not run
ChartIdle == bms_text = <<>> /\ use_float32 = FALSE /\ bms = NoBms /\ tempo_map = NoTempoMap /\ queried = NoQuery
SchedIdle == ln_56_active = EmptyMap /\ ln_56_open_ids = EmptyMap /\ cursor = 0
MixIdle == prepared = NoPrepared /\ bucketed = <<>> /\ pre = <<>> /\ mixed = <<>>
OutIdle ==
    /\ fetched = <<>>
    /\ chan = <<>>
    /\ pending = EmptyMap
    /\ next_ci = 0
    /\ emitted = 0
    /\ on_chunk_calls = <<>>
    /\ result = Running

(***************************************************************************)
(* The mixer stages, as convert_bms_to_wav runs them (wasm.rs 184-229)     *)
(***************************************************************************)
\* what on_progress received before prepare_events runs
ReportedBeforePrepare == <<5, 10, 15, 20, 50>>

InitMix ==
    /\ pc = "prepare"
    /\ on_progress_calls = ReportedBeforePrepare
    /\ ChartIdle /\ SchedIdle /\ MixIdle /\ OutIdle
    /\ sound_events \in SeqsUpTo(MixSoundEvents, MaxEvents)
    /\ decoded \in DecodedVecs

\* if prepared.total_len == 0
NothingToMixNever(p) == FALSE
NothingToMix(p) == p.total_len = 0

\* mutant of Prepare: on_chunk is called with a header before the empty-mix check
PrepareHeaderFirst ==
    /\ pc = "prepare"
    /\ prepared' = prepare_events(sound_events, decoded)
    /\ IF NothingToMix(prepared')
       THEN pc' = "returned" /\ result' = "Nothing to mix"
       ELSE pc' = "bucketize" /\ result' = result
    /\ on_progress_calls' = ReportProgress(on_progress_calls, 55)
    /\ on_chunk_calls' = Append(on_chunk_calls, [kind |-> "header"])
    /\ UNCHANGED <<chartVars, schedVars, decoded, bucketed, pre, mixed>>
    /\ UNCHANGED <<fetched, chan, pending, next_ci, emitted>>

\* report_progress(55); let prepared = prepare_events(&sound_events, &decoded_vec);
\* if prepared.total_len == 0 { return Err("Nothing to mix") }
Prepare ==
    /\ pc = "prepare"
    /\ prepared' = prepare_events(sound_events, decoded)
    /\ IF NothingToMix(prepared')
       THEN pc' = "returned" /\ result' = "Nothing to mix"
       ELSE pc' = "bucketize" /\ result' = result
    /\ on_progress_calls' = ReportProgress(on_progress_calls, 55)
    /\ UNCHANGED <<chartVars, schedVars, decoded, bucketed, pre, mixed>>
    /\ UNCHANGED <<fetched, chan, pending, next_ci, emitted, on_chunk_calls>>

\* let (chunk_count, buckets) = bucketize_events(&prepared.events, prepared.total_len)
Bucketize ==
    /\ pc = "bucketize"
    /\ bucketed' = bucketize_events(prepared.events, prepared.total_len)
    /\ pc' = "precompute"
    /\ UNCHANGED <<chartVars, schedVars, decoded, prepared, pre, mixed, outVars>>

\* let pre = precompute_overlaps(&prepared.events, &decoded_vec, &buckets, prepared.total_len)
Precompute ==
    /\ pc = "precompute"
    /\ pre' = precompute_overlaps(prepared.events, decoded, bucketed, prepared.total_len)
    /\ mixed' = [c \in 1..Len(bucketed) |-> None]
    /\ pc' = "header"
    /\ on_progress_calls' = ReportProgress(on_progress_calls, 60)
    /\ UNCHANGED <<chartVars, schedVars, decoded, prepared, bucketed>>
    /\ UNCHANGED <<fetched, chan, pending, next_ci, emitted, on_chunk_calls, result>>

\* the width of the u32 size fields, scaled
SizeBits == 8
U32_MAX == 2 ^ SizeBits - 1

\* the 44-byte header: its fields
WavHeader(total_len, float32) ==
    LET bits_per_sample == IF float32 THEN 32 ELSE 16
        block_align == MIX_CH * (bits_per_sample \div 8)
        data_len == total_len * (bits_per_sample \div 8)
    IN  [kind |-> "header",
         file_size_minus_8 |-> (36 + data_len) % (U32_MAX + 1),
         audio_format |-> IF float32 THEN 3 ELSE 1,
         channels |-> MIX_CH,
         sample_rate |-> MIX_SR,
         byte_rate |-> MIX_SR * block_align,
         block_align |-> block_align,
         bits_per_sample |-> bits_per_sample,
         data_len |-> data_len]

\* let file_size_minus_8: u32 = 36 + data_len overflows: a build with overflow checks
\* panics there, a build without them wraps
RiffSizeOverflows(total_len, float32) ==
    36 + total_len * ((IF float32 THEN 32 ELSE 16) \div 8) > U32_MAX

\* the size check, then call_chunk(on_chunk, &header)?: the callback returns or throws
WriteHeader ==
    /\ pc = "header"
    /\ IF prepared.total_len * ((IF use_float32 THEN 32 ELSE 16) \div 8) > U32_MAX
       THEN /\ pc' = "returned"
            /\ result' = "Output exceeds WAV 4GB limit"
            /\ UNCHANGED <<on_chunk_calls, on_progress_calls>>
       ELSE \/ /\ on_chunk_calls' = Append(on_chunk_calls, WavHeader(prepared.total_len, use_float32))
               /\ \/ /\ pc' = "mix"
                     /\ on_progress_calls' = ReportProgress(on_progress_calls, 65)
                     /\ UNCHANGED result
                  \/ /\ pc' = "returned"
                     /\ result' = "on_chunk error"
                     /\ UNCHANGED on_progress_calls
            \/ /\ RiffSizeOverflows(prepared.total_len, use_float32)
               /\ pc' = "returned"
               /\ result' = "panic"
               /\ UNCHANGED <<on_chunk_calls, on_progress_calls>>
    /\ UNCHANGED <<chartVars, schedVars, mixVars, fetched, chan, pending, next_ci, emitted>>

\* (0..chunk_count).into_par_iter().for_each_with(tx.clone(), ..): a worker mixes
\* chunk ci and sends (ci, buf); the workers finish in any order
MixChunk(ci) ==
    /\ pc = "mix"
    /\ mixed[ci + 1] = None
    /\ LET start == ci * chunk_samples
           end == Min2(start + chunk_samples, prepared.total_len)
       IN  IF AllInBounds(end - start, pre[ci + 1], prepared.events, decoded)
           THEN LET buf == mix_chunk(ci, prepared.events, decoded, pre, prepared.total_len)
                IN  /\ mixed' = [mixed EXCEPT ![ci + 1] = Some(buf)]
                    /\ chan' = Append(chan, <<ci, buf>>)
                    /\ pc' = IF \A c \in DOMAIN mixed' : IsSome(mixed'[c]) THEN "mixed" ELSE "mix"
                    /\ result' = result
           ELSE /\ mixed' = mixed
                /\ chan' = chan
                /\ pc' = "returned"
                /\ result' = "panic"
    /\ UNCHANGED <<chartVars, schedVars, decoded, prepared, bucketed, pre>>
    /\ UNCHANGED <<fetched, pending, next_ci, emitted, on_chunk_calls, on_progress_calls>>

NextMix ==
    \/ Prepare
    \/ Bucketize
    \/ Precompute
    \/ WriteHeader
    \/ \E ci \in 0..(Len(mixed) - 1) : MixChunk(ci)

SpecMix == InitMix /\ [][NextMix]_vars

(***************************************************************************)
(* Claims about the mixer (SpecMix)                                        *)
(***************************************************************************)
SrcLenOf(e) == Len(decoded[e.key_id + 1].buf)

\* the prepared events that sound at global output index g
SoundingAt(g) ==
    {i \in 1..Len(prepared.events) :
        LET e == prepared.events[i]
        IN  e.start <= g /\ g < Min2(e.end, e.start + SrcLenOf(e))}

RECURSIVE SumOver(_, _)
SumOver(I, g) ==
    IF I = {} THEN 0
    ELSE LET i == CHOOSE x \in I : TRUE
             e == prepared.events[i]
         IN  decoded[e.key_id + 1].buf[g - e.start + 1] + SumOver(I \ {i}, g)

PlainSum(g) == SumOver(SoundingAt(g), g)

\* C2: every sample of every mixed chunk is the plain sum of the sources of the
\* prepared events sounding at its global index (0 where none sounds), and chunk ci
\* holds the indices [ci * chunk_samples, min((ci + 1) * chunk_samples, total_len)).
C2_MixIsPlainSum ==
    \A c \in DOMAIN mixed :
        IsSome(mixed[c]) =>
            LET buf == Unwrap(mixed[c])
                start == (c - 1) * chunk_samples
            IN  /\ Len(buf) = Min2(start + chunk_samples, prepared.total_len) - start
                /\ \A off \in 0..(Len(buf) - 1) : buf[off + 1] = PlainSum(start + off)

\* C2 witness: all chunks are mixed, there are at least two, some sample is the sum
\* of two events, some sample is silent, and one slice takes both the f32x8 path and
\* the scalar tail.
C2_Witness ==
    /\ pc = "mixed"
    /\ Len(mixed) >= 2
    /\ \E g \in 0..(prepared.total_len - 1) : Cardinality(SoundingAt(g)) = 2
    /\ \E g \in 0..(prepared.total_len - 1) : SoundingAt(g) = {}
    /\ \E c \in DOMAIN pre : \E k \in DOMAIN pre[c] :
           pre[c][k].len > Lanes /\ pre[c][k].len % Lanes # 0

\* C3: two prepared events of one key_id have disjoint [start, end) intervals.
C3_SameKeyDisjoint ==
    pc # "prepare" =>
        \A i, j \in 1..Len(prepared.events) :
            LET a == prepared.events[i]
                b == prepared.events[j]
            IN  (i < j /\ a.key_id = b.key_id) => (a.end <= b.start \/ b.end <= a.start)

\* C3 witness: the input holds two events of one key_id with the same start and an
\* event with an explicit end, an event was truncated by a later one of its key_id,
\* and two events of that key_id are prepared.
C3_Witness ==
    /\ pc = "bucketize"
    /\ \E i, j \in 1..Len(sound_events) :
           /\ i < j
           /\ sound_events[i].key_id = sound_events[j].key_id
           /\ sound_events[i].start = sound_events[j].start
    /\ \E i \in 1..Len(sound_events) : IsSome(sound_events[i].end)
    /\ \E i, j \in 1..Len(prepared.events) :
           /\ i < j
           /\ prepared.events[i].key_id = prepared.events[j].key_id
           /\ prepared.events[i].end = prepared.events[j].start
           /\ prepared.events[i].end <
                  prepared.events[i].start + SrcLenOf(prepared.events[i])

\* C9 as claimed: every prepared event, whatever its input's end, has
\* start < end <= start + length of its source.
C9_Original ==
    pc # "prepare" =>
        \A i \in 1..Len(prepared.events) :
            LET e == prepared.events[i]
            IN  e.end > e.start /\ e.end <= e.start + SrcLenOf(e)

\* an input event of e's key_id and start that carries an explicit end covering e
FromExplicitEnd(e) ==
    \E i \in 1..Len(sound_events) :
        /\ sound_events[i].key_id = e.key_id
        /\ sound_events[i].start = e.start
        /\ IsSome(sound_events[i].end)
        /\ e.end <= Unwrap(sound_events[i].end)

\* C9 amended: every prepared event has end > start, and end <= start + length of
\* its source unless it comes from an input event with an explicit end (then it is
\* bounded by that explicit end); so an event with end = None on a source of zero
\* length is never prepared.
C9_Amended ==
    pc # "prepare" =>
        \A i \in 1..Len(prepared.events) :
            LET e == prepared.events[i]
            IN  /\ e.end > e.start
                /\ (e.end <= e.start + SrcLenOf(e) \/ FromExplicitEnd(e))

\* C9 witness: an input event with end = None on an empty source was dropped, an
\* event with an explicit end past its source was kept, and an event with end = None
\* was kept with its natural end.
C9_Witness ==
    /\ pc = "bucketize"
    /\ \E i \in 1..Len(sound_events) :
           /\ sound_events[i].end = None
           /\ SrcLenOf(sound_events[i]) = 0
           /\ \A j \in 1..Len(prepared.events) :
                  prepared.events[j].key_id # sound_events[i].key_id
    /\ \E j \in 1..Len(prepared.events) :
           prepared.events[j].end > prepared.events[j].start + SrcLenOf(prepared.events[j])
    /\ \E j \in 1..Len(prepared.events) :
           /\ ~FromExplicitEnd(prepared.events[j])
           /\ prepared.events[j].end =
                  prepared.events[j].start + decoded[prepared.events[j].key_id + 1].frames * MIX_CH

\* C23: the total_len prepare_events returns is the largest end among the events it
\* returns (0 when it returns none), whatever the input, explicit ends included.
C23_TotalLenIsMaxEnd ==
    pc # "prepare" =>
        /\ \A i \in 1..Len(prepared.events) : prepared.events[i].end <= prepared.total_len
        /\ IF prepared.events = <<>> THEN prepared.total_len = 0
           ELSE \E i \in 1..Len(prepared.events) : prepared.events[i].end = prepared.total_len

\* the slices of prepared event ev_idx in the chunks from c on, in chunk order, each
\* with the index of its chunk
RECURSIVE EventSlices(_, _)
EventSlices(ev_idx, c) ==
    IF c > Len(pre) THEN <<>>
    ELSE [k \in 1..Cardinality({j \in DOMAIN pre[c] : pre[c][j].ev_idx = ev_idx}) |->
             [ci |-> c - 1,
              slice |-> pre[c][CHOOSE j \in DOMAIN pre[c] : pre[c][j].ev_idx = ev_idx]]]
         \o EventSlices(ev_idx, c + 1)

RECURSIVE SumLens(_)
SumLens(q) == IF q = <<>> THEN 0 ELSE Head(q).slice.len + SumLens(Tail(q))

\* C24: the slices of every prepared event, taken in chunk order, tile
\* [start, min(end, start + source length)): at most one per chunk, the first at the
\* event's start with src_off = 0, each following one in the next chunk with
\* dst_off = 0 and src_off = the previous src_off + len, lengths summing to
\* min(end - start, source length).
C24_SlicesTile ==
    Len(pre) > 0 =>
        \A i \in 1..Len(prepared.events) :
            LET e == prepared.events[i]
                q == EventSlices(i - 1, 1)
            IN  /\ SumLens(q) = Min2(e.end - e.start, SrcLenOf(e))
                /\ \A c \in DOMAIN pre :
                       Cardinality({j \in DOMAIN pre[c] : pre[c][j].ev_idx = i - 1}) <= 1
                /\ q # <<>> =>
                       /\ q[1].slice.src_off = 0
                       /\ q[1].ci * chunk_samples + q[1].slice.dst_off = e.start
                /\ \A k \in 2..Len(q) :
                       /\ q[k].ci = q[k - 1].ci + 1
                       /\ q[k].slice.dst_off = 0
                       /\ q[k].slice.src_off = q[k - 1].slice.src_off + q[k - 1].slice.len
                       /\ q[k - 1].slice.dst_off + q[k - 1].slice.len = chunk_samples

\* an event that crosses one chunk boundary has a slice in each of the two chunks, and
\* another event is cut short by its end
C24_Witness ==
    /\ Len(pre) > 0
    /\ \E i \in 1..Len(prepared.events) :
           /\ Len(EventSlices(i - 1, 1)) = 2
           /\ EventSlices(i - 1, 1)[1].slice.dst_off > 0
           /\ EventSlices(i - 1, 1)[2].slice.src_off > 0
    /\ \E i \in 1..Len(prepared.events) :
           /\ prepared.events[i].end - prepared.events[i].start < SrcLenOf(prepared.events[i])
           /\ Len(EventSlices(i - 1, 1)) = 1
           /\ EventSlices(i - 1, 1)[1].slice.len = prepared.events[i].end - prepared.events[i].start

\* the length of the buffer mix_chunk allocates for chunk ci
ChunkBufLen(ci) ==
    Min2(ci * chunk_samples + chunk_samples, prepared.total_len) - ci * chunk_samples

\* C25: every slice precompute_overlaps makes of the prepared and bucketed events lies
\* within the decoded source of its event and within the buffer mix_chunk allocates
\* for its chunk, and no chunk's mixing panics.
C25_SlicesInBounds ==
    /\ \A c \in DOMAIN pre : \A k \in DOMAIN pre[c] :
           LET sl == pre[c][k]
           IN  /\ sl.ev_idx < Len(prepared.events)
               /\ sl.len > 0
               /\ sl.src_off + sl.len <= SrcLenOf(prepared.events[sl.ev_idx + 1])
               /\ sl.dst_off + sl.len <= ChunkBufLen(c - 1)
    /\ result # "panic"

\* slices were made of an event whose explicit end lies past its source and of an
\* event that ends with the output, in a last chunk shorter than chunk_samples
C25_Witness ==
    /\ pc = "mixed"
    /\ ChunkBufLen(Len(pre) - 1) < chunk_samples
    /\ \E k \in DOMAIN pre[Len(pre)] :
           pre[Len(pre)][k].dst_off + pre[Len(pre)][k].len = ChunkBufLen(Len(pre) - 1)
    /\ \E c \in DOMAIN pre : \E k \in DOMAIN pre[c] :
           LET e == prepared.events[pre[c][k].ev_idx + 1]
           IN  /\ e.end > e.start + SrcLenOf(e)
               /\ pre[c][k].src_off + pre[c][k].len = SrcLenOf(e)

(***************************************************************************)
(* prepare_events on two events of one long source (SpecTrunc)             *)
(***************************************************************************)
\* the starts are multiples of 50 samples up to 50 * MaxStartStep
MaxStartStep == 7
TruncStarts == {50 * k : k \in 0..MaxStartStep}
TruncSrcLens == {400, 1000}

InitTrunc ==
    /\ pc = "prepare"
    /\ on_progress_calls = ReportedBeforePrepare
    /\ ChartIdle /\ SchedIdle /\ MixIdle /\ OutIdle
    /\ \E s1 \in TruncStarts, s2 \in TruncStarts :
           sound_events = <<SoundEvent(0, s1, None), SoundEvent(0, s2, None)>>
    /\ \E len \in TruncSrcLens : decoded = <<Decoded(0, len)>>

NextTrunc == Prepare

SpecTrunc == InitTrunc /\ [][NextTrunc]_vars

\* the input of the source truncation scenario: two events of one key_id with
\* end = None at starts 0 and 100, on a source of 1000 samples
TruncationScenario ==
    /\ sound_events = <<SoundEvent(0, 0, None), SoundEvent(0, 100, None)>>
    /\ Len(decoded[1].buf) = 1000

\* C18 as claimed: in the scenario prepare_events returns the first event with
\* end = 100 and the second with end = 1000.
C18_Original ==
    (pc # "prepare" /\ TruncationScenario)
        => prepared.events = <<EventRef(0, 0, 100), EventRef(0, 100, 1000)>>

\* C18 amended: in the scenario prepare_events returns the first event with end = 100
\* and the second with end = 1100 (its start plus the 1000 samples of the source), and
\* total_len = 1100.
C18_Amended ==
    (pc # "prepare" /\ TruncationScenario)
        => /\ prepared.events = <<EventRef(0, 0, 100), EventRef(0, 100, 1100)>>
           /\ prepared.total_len = 1100

\* prepare_events has run on the scenario
C18_Witness ==
    /\ pc = "bucketize"
    /\ TruncationScenario
    /\ Len(prepared.events) = 2

(***************************************************************************)
(* The WAV header of a long output (SpecWav): one note that starts late    *)
(***************************************************************************)
\* the samples of the one source of these runs
LateSrcLen == 4

\* start_sample = frames * channels of a note anywhere in the range of the size fields
LateStarts == {f * MIX_CH : f \in 0..((U32_MAX - LateSrcLen) \div MIX_CH)}

InitWav ==
    /\ pc = "prepare"
    /\ on_progress_calls = ReportedBeforePrepare
    /\ bms_text = <<>> /\ bms = NoBms /\ tempo_map = NoTempoMap /\ queried = NoQuery
    /\ use_float32 \in BOOLEAN
    /\ SchedIdle /\ MixIdle /\ OutIdle
    /\ \E s \in LateStarts : sound_events = <<SoundEvent(0, s, None)>>
    /\ decoded = <<Decoded(0, LateSrcLen)>>

\* the stages from prepare_events to the header
NextWav ==
    \/ Prepare
    \/ Bucketize
    \/ Precompute
    \/ WriteHeader

SpecWav == InitWav /\ [][NextWav]_vars

\* the headers on_chunk received
Headers == {on_chunk_calls[k] : k \in {j \in DOMAIN on_chunk_calls : on_chunk_calls[j].kind = "header"}}
BytesPerSample == (IF use_float32 THEN 32 ELSE 16) \div 8
HeaderDone == pc \in {"mix", "mixed"} \/ (pc = "returned" /\ result # "Nothing to mix")

\* C11: the call fails with "Output exceeds WAV 4GB limit" exactly when total_len *
\* bytes_per_sample exceeds the largest u32, and for every total_len that passes the
\* check the header is written with a RIFF size field equal to data_len + 36, with no
\* overflow (no wrapped value, no overflow panic), for 16-bit and float32 output.
C11_RiffSize ==
    HeaderDone =>
        /\ result = "Output exceeds WAV 4GB limit" <=> prepared.total_len * BytesPerSample > U32_MAX
        /\ result # "panic"
        /\ \A h \in Headers :
               /\ h.data_len = prepared.total_len * BytesPerSample
               /\ h.file_size_minus_8 = h.data_len + 36

(***************************************************************************)
(* Text: a string is a sequence of one-character strings                   *)
(***************************************************************************)
LowerAlpha == <<"a","b","c","d","e","f","g","h","i","j","k","l","m",
                "n","o","p","q","r","s","t","u","v","w","x","y","z">>
UpperAlpha == <<"A","B","C","D","E","F","G","H","I","J","K","L","M",
                "N","O","P","Q","R","S","T","U","V","W","X","Y","Z">>
DecDigits == <<"0","1","2","3","4","5","6","7","8","9">>

IndexIn(seq, c) == IF \E i \in DOMAIN seq : seq[i] = c
                   THEN CHOOSE i \in DOMAIN seq : seq[i] = c
                   ELSE 0

UpperChar(c) == IF IndexIn(LowerAlpha, c) # 0 THEN UpperAlpha[IndexIn(LowerAlpha, c)] ELSE c
\* str::to_uppercase on ASCII text
ToUppercase(str) == [i \in DOMAIN str |-> UpperChar(str[i])]
\* str::eq_ignore_ascii_case
EqIgnoreAsciiCase(a, b) == ToUppercase(a) = ToUppercase(b)

\* char::to_digit(radix): None (-1) when c is no digit of the radix
ToDigit(c, radix) ==
    LET v == IF IndexIn(DecDigits, c) # 0 THEN IndexIn(DecDigits, c) - 1
             ELSE IF IndexIn(UpperAlpha, UpperChar(c)) # 0
                  THEN IndexIn(UpperAlpha, UpperChar(c)) + 9
                  ELSE -1
    IN  IF v >= 0 /\ v < radix THEN v ELSE -1

RECURSIVE DigitsValue(_, _, _)
DigitsValue(digits, radix, acc) ==
    IF digits = <<>> THEN acc
    ELSE IF acc < 0 \/ ToDigit(Head(digits), radix) < 0 THEN -1
    ELSE DigitsValue(Tail(digits), radix, acc * radix + ToDigit(Head(digits), radix))

U8_MAX == 255

\* u8::from_str_radix(str, radix): an optional '+', then digits; Err on overflow
U8FromStrRadix(str, radix) ==
    LET digits == IF Len(str) > 1 /\ str[1] = "+" THEN Tail(str) ELSE str
        v == IF digits = <<>> \/ digits = <<"+">> \/ digits = <<"-">> THEN -1
             ELSE DigitsValue(digits, radix, 0)
    IN  IF v >= 0 /\ v <= U8_MAX THEN Some(v) ELSE None

ZeroId == <<"0", "0">>

(***************************************************************************)
(* f64 values of the timeline: exact multiples of 1 / TimeDen second, or   *)
(* the IEEE values a division by a zero BPM produces                       *)
(***************************************************************************)
\* the largest number of objects of a message of the model
MaxObjects == 3

RECURSIVE Gcd(_, _)
Gcd(a, b) == IF b = 0 THEN a ELSE Gcd(b, a % b)
RECURSIVE LcmUpTo(_)
LcmUpTo(n) == IF n <= 1 THEN 1 ELSE (LcmUpTo(n - 1) * n) \div Gcd(LcmUpTo(n - 1), n)

\* positions are multiples of 1 / PosDen measure, multipliers of 1 / MultDen
PosDen == LcmUpTo(MaxObjects)
MultDen == 2 * 2
TimeDen == PosDen * MultDen
One == MultDen

Fin(n) == [k |-> "fin", v |-> n]
PInf == [k |-> "inf", v |-> 0]
NaN == [k |-> "nan", v |-> 0]
Panic == [k |-> "panic", v |-> 0]

\* a / b for b # 0, truncating toward zero (exact for the values of the model)
SDiv(a, b) ==
    LET q == (IF a < 0 THEN -a ELSE a) \div (IF b < 0 THEN -b ELSE b)
    IN  IF (a < 0) = (b < 0) THEN q ELSE -q

FAdd(x, y) ==
    IF x.k = "panic" \/ y.k = "panic" THEN Panic
    ELSE IF x.k = "nan" \/ y.k = "nan" THEN NaN
    ELSE IF x.k = "inf" \/ y.k = "inf" THEN PInf
    ELSE Fin(x.v + y.v)

\* a <= b on f64: false when either is NaN
FLe(x, y) ==
    /\ x.k \in {"fin", "inf"}
    /\ y.k \in {"fin", "inf"}
    /\ (y.k = "inf" \/ (x.k = "fin" /\ x.v <= y.v))

\* du * (4.0 * (60.0 / bpm)) seconds for du >= 0 in units of 1 / (PosDen * MultDen) measure
MeasuresToSec(du, bpm) ==
    IF bpm = 0 THEN (IF du = 0 THEN NaN ELSE PInf)
    ELSE Fin(SDiv(du * 240, bpm))

\* position of object i of n: (i as f64) / num_objects
Position(i, n) == (i * PosDen) \div n

(***************************************************************************)
(* bms.rs: Header                                                          *)
(***************************************************************************)
EmptyFn == [x \in {} |-> 0]
Get(map, key) == IF key \in DOMAIN map THEN Some(map[key]) ELSE None
Insert(map, key, val) == [x \in DOMAIN map \cup {key} |-> IF x = key THEN val ELSE map[x]]

\* #[derive(Default)] Header: bpm is f64::default(), the tables are empty
HeaderDefault ==
    [bpm |-> 0, ln_type |-> None, ln_obj |-> None,
     audio_files |-> EmptyFn, bpm_table |-> EmptyFn, stop_table |-> EmptyFn]

\* the value texts of the model and what str::parse::<f64> makes of them
F64Text == [t \in {"0", "48", "96", "60", "120", "240", "-60"} |->
               CASE t = "0" -> 0 [] t = "48" -> 48 [] t = "96" -> 96 [] t = "60" -> 60
                 [] t = "120" -> 120 [] t = "240" -> 240 [] t = "-60" -> 0 - 60]
ParseF64(text) == Get(F64Text, text)
U8Text == [t \in {"1", "2", "3"} |-> CASE t = "1" -> 1 [] t = "2" -> 2 [] t = "3" -> 3]
ParseU8(text) == Get(U8Text, text)

StartsWith(str, prefix) == Len(str) >= Len(prefix) /\ SubSeq(str, 1, Len(prefix)) = prefix
From(str, n) == SubSeq(str, n + 1, Len(str))

K_BPM == <<"B", "P", "M">>
K_WAV == <<"W", "A", "V">>
K_OGG == <<"O", "G", "G">>
K_STOP == <<"S", "T", "O", "P">>
K_LNTYPE == <<"L", "N", "T", "Y", "P", "E">>
K_LNOBJ == <<"L", "N", "O", "B", "J">>
HeaderLine(k, v) == [kind |-> "header", key |-> k, value |-> v]

\* "BPM" => self.bpm = value.parse().unwrap_or(120.0)
BpmOrDefault(value) == UnwrapOr(ParseF64(value), 120)

\* Header::parse_line for the keys the timeline reads, on a line "#KEY VALUE"
parse_line(h, line) ==
    LET key == ToUppercase(line.key)
        value == line.value
    IN  CASE key = K_BPM -> [h EXCEPT !.bpm = BpmOrDefault(value)]
          [] key = K_LNTYPE -> [h EXCEPT !.ln_type = ParseU8(value)]
          [] key = K_LNOBJ -> [h EXCEPT !.ln_obj = Some(ToUppercase(value))]
          [] key # K_LNTYPE /\ key # K_LNOBJ /\ (StartsWith(key, K_WAV) \/ StartsWith(key, K_OGG)) ->
                 [h EXCEPT !.audio_files = Insert(@, From(key, 3), value)]
          [] key # K_BPM /\ StartsWith(key, K_BPM) /\ Len(key) > 3 ->
                 IF IsSome(ParseF64(value)) /\ Unwrap(ParseF64(value)) > 0
                 THEN [h EXCEPT !.bpm_table = Insert(@, ToUppercase(From(key, 3)), Unwrap(ParseF64(value)))]
                 ELSE h
          [] StartsWith(key, K_STOP) ->
                 IF IsSome(ParseF64(value)) /\ Unwrap(ParseF64(value)) >= 0
                 THEN [h EXCEPT !.stop_table = Insert(@, ToUppercase(From(key, 4)), Unwrap(ParseF64(value)))]
                 ELSE h
          [] OTHER -> h

Message(m, c, objs) == [measure |-> m, channel |-> c, objects |-> objs]
Bms(h, msgs, mults) == [header |-> h, messages |-> msgs, measure_multipliers |-> mults]

(***************************************************************************)
(* bms.rs: BmsField::parse, Message::parse, Bms::parse                     *)
(* The chart text is a sequence of trimmed lines: a section marker, a      *)
(* header line "#KEY VALUE" or a data line "#MMMCC:REST".  A header line   *)
(* has no ':' after a numeric measure and a data line has no ' ', so each  *)
(* yields nothing under the other section's parser.                        *)
(***************************************************************************)
SectionLine(name) == [kind |-> "section", name |-> name]
DataLine(mmm, cc, rest) == [kind |-> "data", mmm |-> mmm, cc |-> cc, rest |-> rest]

\* BmsField::parse on a line that starts with BMS_FIELD_PREFIX
BmsFieldParse(line) ==
    CASE line.name = "HEADER FIELD" -> "Header"
      [] line.name = "MAIN DATA FIELD" -> "Data"
      [] OTHER -> "Unknown"

\* str::parse::<u16> / <u8> on decimal text: an optional '+', then digits
UIntParse(str, max) ==
    LET digits == IF Len(str) > 1 /\ str[1] = "+" THEN Tail(str) ELSE str
        v == IF digits = <<>> \/ digits = <<"+">> \/ digits = <<"-">> THEN -1
             ELSE DigitsValue(digits, 10, 0)
    IN  IF v >= 0 /\ v <= max THEN Some(v) ELSE None
U16_MAX == 65535

\* objects_str.as_bytes().chunks(2)
RECURSIVE Chunks2(_)
Chunks2(str) == IF str = <<>> THEN <<>> ELSE <<SubSeq(str, 1, 2)>> \o Chunks2(From(str, 2))

\* u8::from_str_radix(channel_str, 36).unwrap_or_else(|_| channel_str.parse().unwrap_or(0))
ChannelOf(channel_str) ==
    IF IsSome(U8FromStrRadix(channel_str, 36)) THEN Unwrap(U8FromStrRadix(channel_str, 36))
    ELSE UnwrapOr(UIntParse(channel_str, U8_MAX), 0)

\* Message::parse on a data line: Some(message), or None for an Err
MessageParse(line) ==
    LET measure == UIntParse(line.mmm, U16_MAX)
    IN  IF measure = None \/ Len(line.rest) % 2 # 0 THEN None
        ELSE Some(Message(Unwrap(measure), ChannelOf(line.cc), Chunks2(line.rest)))

\* the multiplier texts of the model and what str::parse::<f64> makes of them, in 1 / MultDen
MultText ==
    [t \in {<<"0", ".", "5">>, <<"2">>, <<"0">>, <<"-", "1">>} |->
        CASE t = <<"0", ".", "5">> -> One \div 2
          [] t = <<"2">> -> 2 * One
          [] t = <<"0">> -> 0
          [] OTHER -> 0 - One]

\* the MAIN DATA FIELD arm of Bms::parse on one line
ParseDataLine(b, line) ==
    IF line.kind # "data" THEN b
    ELSE IF EqIgnoreAsciiCase(line.cc, <<"0", "2">>)
    THEN LET measure == UIntParse(line.mmm, U16_MAX)
             mult == Get(MultText, line.rest)
         IN  IF IsSome(measure) /\ IsSome(mult) /\ Unwrap(mult) > 0
             THEN [b EXCEPT !.measure_multipliers = Insert(@, Unwrap(measure), Unwrap(mult))]
             ELSE b
    ELSE IF IsSome(MessageParse(line))
    THEN [b EXCEPT !.messages = Append(@, Unwrap(MessageParse(line)))]
    ELSE b

\* a line given by its characters, with no ' ' in it; a character outside ASCII is
\* named by its code point
RawLine(text) == [kind |-> "raw", text |-> text]
HiraganaA == "U+3042"
LatinEAcute == "U+00E9"

\* char::len_utf8
LenUtf8(c) == CASE c = HiraganaA -> 3 [] c = LatinEAcute -> 2 [] OTHER -> 1

\* str::len: the length in bytes
RECURSIVE ByteLen(_)
ByteLen(text) == IF text = <<>> THEN 0 ELSE LenUtf8(Head(text)) + ByteLen(Tail(text))

\* the number of characters before byte offset n, or -1 when n is no char boundary
CharsBefore(text, n) ==
    IF \E k \in 0..Len(text) : ByteLen(SubSeq(text, 1, k)) = n
    THEN CHOOSE k \in 0..Len(text) : ByteLen(SubSeq(text, 1, k)) = n
    ELSE -1

\* &text[a..b] for a <= b <= text.len(): None when the slice panics, an offset being
\* no char boundary
ByteSlice(text, a, b) ==
    IF CharsBefore(text, a) < 0 \/ CharsBefore(text, b) < 0 THEN None
    ELSE Some(SubSeq(text, CharsBefore(text, a) + 1, CharsBefore(text, b)))

\* text.split_once(':'): what follows the first ':', or None
AfterColon(text) ==
    IF \E k \in DOMAIN text : text[k] = ":"
    THEN Some(From(text, CHOOSE k \in DOMAIN text : text[k] = ":" /\ \A j \in 1..(k - 1) : text[j] # ":"))
    ELSE None

\* Bms::parse panicked
ParsePanic == [panic |-> TRUE]

\* the MAIN DATA FIELD arm of Bms::parse on a raw line: &line[1..4] and &line[4..6]
\* are taken of every line that starts with '#' and has 7 bytes or more
ParseRawDataLine(b, line) ==
    LET text == line.text
    IN  IF text # <<>> /\ text[1] = "#" /\ ByteLen(text) >= 7
        THEN IF ByteSlice(text, 1, 4) = None \/ ByteSlice(text, 4, 6) = None THEN ParsePanic
             ELSE IF AfterColon(text) = None THEN b
             ELSE ParseDataLine(b, DataLine(Unwrap(ByteSlice(text, 1, 4)),
                                            Unwrap(ByteSlice(text, 4, 6)),
                                            Unwrap(AfterColon(text))))
        ELSE b

\* the loop of Bms::parse from line i on, in section current_field
RECURSIVE ParseLines(_, _, _, _)
ParseLines(b, lines, i, current_field) ==
    IF i > Len(lines) \/ b = ParsePanic THEN b
    ELSE LET line == lines[i]
         IN  IF line.kind = "section" THEN ParseLines(b, lines, i + 1, BmsFieldParse(line))
             ELSE IF current_field = "Header"
             THEN ParseLines(IF line.kind = "header"
                             THEN [b EXCEPT !.header = parse_line(@, line)]
                             ELSE b,
                             lines, i + 1, current_field)
             ELSE IF current_field = "Data"
             THEN ParseLines(IF line.kind = "raw" THEN ParseRawDataLine(b, line)
                             ELSE ParseDataLine(b, line),
                             lines, i + 1, current_field)
             ELSE ParseLines(b, lines, i + 1, current_field)

\* Bms::parse: Ok(bms), or a panic
BmsParse(lines) == ParseLines(Bms(HeaderDefault, <<>>, EmptyFn), lines, 1, "Unknown")

(***************************************************************************)
(* timeline.rs: build_tempo_map                                            *)
(***************************************************************************)
SetMin(S) == CHOOSE x \in S : \A y \in S : x <= y
SetMax(S) == CHOOSE x \in S : \A y \in S : x >= y
Measures(b) == {b.messages[i].measure : i \in DOMAIN b.messages}

\* bms.messages.iter().map(|m| m.measure).min().unwrap_or(0)
BaseMeasure(b) == IF Measures(b) = {} THEN 0 ELSE SetMin(Measures(b))

MaxMeasure(b) ==
    LET base == BaseMeasure(b)
        keys == DOMAIN b.measure_multipliers
    IN  Max2(IF Measures(b) = {} THEN base ELSE SetMax(Measures(b)),
             IF keys = {} THEN base ELSE SetMax(keys))

MultVec(b) ==
    [i \in 1..(MaxMeasure(b) - BaseMeasure(b) + 1) |->
        UnwrapOr(Get(b.measure_multipliers, BaseMeasure(b) + i - 1), One)]

CumMult(mult_vec) == [i \in DOMAIN mult_vec |-> SumSeq(SubSeq(mult_vec, 1, i - 1))]

RawTempoChange(m, p, b) == [measure |-> m, position |-> p, bpm |-> b]
StopEvent(m, p, d) == [measure |-> m, position |-> p, duration_192nds |-> d]

\* the tempo changes of one message: channel 03 (hex BPM), channel 08 (BPM table)
RECURSIVE MessageTempoChanges(_, _, _)
MessageTempoChanges(b, message, i) ==
    IF i >= Len(message.objects) THEN <<>>
    ELSE LET object == message.objects[i + 1]
             position == Position(i, Len(message.objects))
             rest == MessageTempoChanges(b, message, i + 1)
             hex == U8FromStrRadix(object, 16)
         IN  IF message.channel = 3
                  /\ ~EqIgnoreAsciiCase(object, ZeroId) /\ IsSome(hex) /\ Unwrap(hex) > 0
             THEN <<RawTempoChange(message.measure, position, Unwrap(hex))>> \o rest
             ELSE IF message.channel = 8
                  /\ ~EqIgnoreAsciiCase(object, ZeroId) /\ object \in DOMAIN b.header.bpm_table
             THEN <<RawTempoChange(message.measure, position, b.header.bpm_table[object])>> \o rest
             ELSE rest

RECURSIVE CollectTempoChanges(_, _)
CollectTempoChanges(b, k) ==
    IF k > Len(b.messages) THEN <<>>
    ELSE MessageTempoChanges(b, b.messages[k], 0) \o CollectTempoChanges(b, k + 1)

\* the stops of one channel 09 message
RECURSIVE MessageStops(_, _, _)
MessageStops(b, message, i) ==
    IF message.channel # 9 \/ i >= Len(message.objects) THEN <<>>
    ELSE LET object == message.objects[i + 1]
             rest == MessageStops(b, message, i + 1)
         IN  IF ~EqIgnoreAsciiCase(object, ZeroId) /\ object \in DOMAIN b.header.stop_table
             THEN <<StopEvent(message.measure, Position(i, Len(message.objects)),
                              b.header.stop_table[object])>> \o rest
             ELSE rest

RECURSIVE CollectStops(_, _)
CollectStops(b, k) ==
    IF k > Len(b.messages) THEN <<>>
    ELSE MessageStops(b, b.messages[k], 0) \o CollectStops(b, k + 1)

\* a.measure.cmp(&b.measure).then(a.position.partial_cmp(&b.position)) is not Greater
KeyLe(a, b) == a.measure < b.measure \/ (a.measure = b.measure /\ a.position <= b.position)
KeyLt(a, b) == a.measure < b.measure \/ (a.measure = b.measure /\ a.position < b.position)

\* sort_by of that comparison: a stable sort
RECURSIVE InsertByKey(_, _)
InsertByKey(sorted, x) ==
    IF sorted = <<>> THEN <<x>>
    ELSE IF KeyLe(Head(sorted), x)
         THEN <<Head(sorted)>> \o InsertByKey(Tail(sorted), x)
         ELSE <<x>> \o sorted

RECURSIVE SortByKey(_)
SortByKey(xs) ==
    IF xs = <<>> THEN <<>>
    ELSE InsertByKey(SortByKey(SubSeq(xs, 1, Len(xs) - 1)), xs[Len(xs)])

(***************************************************************************)
(* timeline.rs: calculate_time_between, integrate_timeline                 *)
(***************************************************************************)
\* mutant of SpanBetween: the whole measures between the two are not counted
SpanBetweenZero(cum_mult, idx_from, idx_to) == Some(0)

\* cum_mult[idx_to] - cum_mult[idx_from + 1], or 0.0; <<>> when the index panics
SpanBetween(cum_mult, idx_from, idx_to) ==
    IF idx_to > idx_from + 1
    THEN IF idx_to < Len(cum_mult) THEN Some(cum_mult[idx_to + 1] - cum_mult[idx_from + 2]) ELSE None
    ELSE Some(0)

\* mutant of VecGetOr: the default is taken whatever the vector holds
VecGetOrDefault(vec, idx, d) == d

VecGetOr(vec, idx, d) == IF idx < Len(vec) THEN vec[idx + 1] ELSE d

calculate_time_between(from_measure, from_position, to_measure, to_position, bpm, measure_multipliers, base_measure, mult_vec, cum_mult) ==
    IF from_measure = to_measure
    THEN LET mult == UnwrapOr(Get(measure_multipliers, from_measure), One)
         IN  MeasuresToSec((to_position - from_position) * mult, bpm)
    ELSE LET idx_from == SaturatingSub(from_measure, base_measure)
             idx_to == SaturatingSub(to_measure, base_measure)
             mult_from == VecGetOr(mult_vec, idx_from, One)
             mult_to == VecGetOr(mult_vec, idx_to, One)
             span_between == SpanBetween(cum_mult, idx_from, idx_to)
         IN  IF span_between = None THEN Panic
             ELSE MeasuresToSec((PosDen - from_position) * mult_from
                                + Unwrap(span_between) * PosDen
                                + to_position * mult_to, bpm)

\* (stop.duration_192nds / 48.0) * (60.0 / current_bpm)
StopDurationSec(duration_192nds, bpm) ==
    IF bpm = 0 THEN (IF duration_192nds = 0 THEN NaN ELSE PInf)
    ELSE Fin(SDiv(TimeDen * duration_192nds * 60, 48 * bpm))

TempoEvent(m, p, b, t) == [measure |-> m, position |-> p, bpm |-> b, timestamp_sec |-> t]

\* stop.measure < tempo_change.measure || (== && stop.position < tempo_change.position)
StopPrecedes(stop, tempo_change) == KeyLt(stop, tempo_change)

\* the while loop over the stops that precede tempo_change; st is the loop state
RECURSIVE IntegrateStops(_, _, _, _)
IntegrateStops(st, tempo_change, stops, tm) ==
    IF st.stop_idx < Len(stops) /\ StopPrecedes(stops[st.stop_idx + 1], tempo_change)
    THEN LET stop == stops[st.stop_idx + 1]
             time_to_stop == calculate_time_between(
                 st.current_measure, st.current_position, stop.measure, stop.position,
                 st.current_bpm, tm.measure_multipliers, tm.base_measure, tm.mult_vec, tm.cum_mult)
             stop_duration_sec == StopDurationSec(stop.duration_192nds, st.current_bpm)
             now == FAdd(FAdd(st.current_time, time_to_stop), stop_duration_sec)
         IN  IntegrateStops(
                 [st EXCEPT !.current_time = now,
                            !.current_measure = stop.measure,
                            !.current_position = stop.position,
                            !.events = Append(@, TempoEvent(stop.measure, stop.position,
                                                            st.current_bpm, now)),
                            !.stop_idx = @ + 1],
                 tempo_change, stops, tm)
    ELSE st

\* the for loop over tempo_changes, from index i
RECURSIVE IntegrateFrom(_, _, _, _, _)
IntegrateFrom(tempo_changes, i, st, stops, tm) ==
    IF i > Len(tempo_changes) THEN st.events
    ELSE LET tempo_change == tempo_changes[i]
             later == tempo_change.measure > st.current_measure
                      \/ (tempo_change.measure = st.current_measure
                          /\ tempo_change.position > st.current_position)
             s1 == IF later THEN IntegrateStops(st, tempo_change, stops, tm) ELSE st
             time_delta == calculate_time_between(
                 s1.current_measure, s1.current_position,
                 tempo_change.measure, tempo_change.position,
                 s1.current_bpm, tm.measure_multipliers, tm.base_measure, tm.mult_vec, tm.cum_mult)
             now == IF later THEN FAdd(s1.current_time, time_delta) ELSE s1.current_time
         IN  IntegrateFrom(tempo_changes, i + 1,
                 [s1 EXCEPT !.current_time = now,
                            !.current_measure = tempo_change.measure,
                            !.current_position = tempo_change.position,
                            !.current_bpm = tempo_change.bpm,
                            !.events = Append(@, TempoEvent(tempo_change.measure,
                                                            tempo_change.position,
                                                            tempo_change.bpm, now))],
                 stops, tm)

integrate_timeline(tempo_changes, stops, tm) ==
    IF tempo_changes = <<>> THEN <<>>
    ELSE IntegrateFrom(tempo_changes, 1,
             [events |-> <<>>, current_time |-> Fin(0), current_measure |-> tm.base_measure,
              current_position |-> 0, current_bpm |-> tempo_changes[1].bpm, stop_idx |-> 0],
             stops, tm)

build_tempo_map(b) ==
    LET tm == [base_measure |-> BaseMeasure(b),
               measure_multipliers |-> b.measure_multipliers,
               mult_vec |-> MultVec(b),
               cum_mult |-> CumMult(MultVec(b))]
        tempo_changes == SortByKey(<<RawTempoChange(BaseMeasure(b), 0, b.header.bpm)>>
                                   \o CollectTempoChanges(b, 1))
        stops == SortByKey(CollectStops(b, 1))
    IN  [base_measure |-> tm.base_measure,
         events |-> integrate_timeline(tempo_changes, stops, tm),
         measure_multipliers |-> tm.measure_multipliers,
         mult_vec |-> tm.mult_vec,
         cum_mult |-> tm.cum_mult]

(***************************************************************************)
(* timeline.rs: TempoMap::get_timestamp                                    *)
(***************************************************************************)
\* the indices binary_search_by may settle on: any anchor at the key itself (the
\* search returns any of several matches), else the one before the insertion point
LastEventIdxs(tm, measure, position) ==
    LET key == [measure |-> measure, position |-> position]
        equal == {i \in 0..(Len(tm.events) - 1) :
                     KeyLe(tm.events[i + 1], key) /\ KeyLe(key, tm.events[i + 1])}
        less == Cardinality({i \in 0..(Len(tm.events) - 1) : KeyLt(tm.events[i + 1], key)})
    IN  IF equal # {} THEN equal ELSE {IF less = 0 THEN 0 ELSE less - 1}

\* get_timestamp once the search settled on last_event_idx
TimestampFrom(tm, last_event_idx, measure, position) ==
    LET event == tm.events[last_event_idx + 1]
    IN  IF event.measure = measure /\ event.position = position THEN event.timestamp_sec
        ELSE IF event.measure = measure
        THEN LET mult == UnwrapOr(Get(tm.measure_multipliers, measure), One)
             IN  FAdd(event.timestamp_sec,
                      MeasuresToSec((position - event.position) * mult, event.bpm))
        ELSE LET idx_from == SaturatingSub(event.measure, tm.base_measure)
                 idx_to == SaturatingSub(measure, tm.base_measure)
                 mult_from == VecGetOr(tm.mult_vec, idx_from, One)
                 mult_to == VecGetOr(tm.mult_vec, idx_to, One)
                 span_between == SpanBetween(tm.cum_mult, idx_from, idx_to)
             IN  IF span_between = None THEN Panic
                 ELSE FAdd(event.timestamp_sec,
                           MeasuresToSec((PosDen - event.position) * mult_from
                                         + Unwrap(span_between) * PosDen
                                         + position * mult_to, event.bpm))

\* the values get_timestamp(measure, position) can return
get_timestamp(tm, measure, position) ==
    IF measure < tm.base_measure THEN {Fin(0)}
    ELSE {TimestampFrom(tm, i, measure, position) : i \in LastEventIdxs(tm, measure, position)}

(***************************************************************************)
(* The tempo map of a chart, and queries on it (SpecTempo)                 *)
(***************************************************************************)
\* bounds of the charts of the tempo model
MaxTempoMsgs == 2
MaxTempoMeasure == 2

Id(a, b) == <<a, b>>
SeqsFromTo(S, lo, hi) == {q \in SeqsUpTo(S, hi) : Len(q) >= lo}

RECURSIVE Concat(_)
Concat(strs) == IF strs = <<>> THEN <<>> ELSE Head(strs) \o Concat(Tail(strs))

\* "#MMM" of a measure below 10
Mmm(measure) == <<"0", "0", DecDigits[measure + 1]>>

\* the optional "#BPM <value>" line ("abc" does not parse), then the tables
BpmLines == {<<>>} \cup {<<HeaderLine(K_BPM, v)>> : v \in {"60", "120", "-60", "abc"}}
TableLines ==
    <<HeaderLine(K_BPM \o Id("0", "1"), "240"),
      HeaderLine(<<"s", "t", "o", "p">> \o Id("0", "1"), "48"),
      HeaderLine(K_STOP \o Id("0", "2"), "0"),
      HeaderLine(K_STOP \o Id("0", "3"), "-60")>>

\* objects of the tempo channels: 03 (hex BPM), 08 (BPM table), 09 (STOP table), and a note
TempoObjects(cc) ==
    CASE cc = Id("0", "3") -> {ZeroId, Id("7", "8")}
      [] cc = Id("0", "8") -> {ZeroId, Id("0", "1")}
      [] cc = Id("0", "9") -> {ZeroId, Id("0", "1")}
      [] OTHER -> {Id("0", "1")}
TempoChannels == {Id("0", "1"), Id("0", "3"), Id("0", "8"), Id("0", "9")}
TempoDataLines ==
    UNION {{DataLine(Mmm(m), cc, Concat(objs)) :
                objs \in SeqsFromTo(TempoObjects(cc), 1, IF cc = Id("0", "1") THEN 1 ELSE 2)} :
              m \in 0..MaxTempoMeasure, cc \in TempoChannels}

\* the optional "#00002:<mult>" line
MultiplierLines == {<<>>} \cup {<<DataLine(Mmm(0), Id("0", "2"), t)>> : t \in {<<"0", ".", "5">>, <<"2">>}}

TempoTexts ==
    {<<SectionLine("HEADER FIELD")>> \o bl \o TableLines
        \o <<SectionLine("MAIN DATA FIELD")>> \o ml \o msgs :
        bl \in BpmLines, ml \in MultiplierLines, msgs \in SeqsUpTo(TempoDataLines, MaxTempoMsgs)}

InitTempo ==
    /\ pc = "parse"
    /\ on_progress_calls = <<>>
    /\ bms_text \in TempoTexts
    /\ use_float32 = FALSE
    /\ bms = NoBms
    /\ tempo_map = NoTempoMap
    /\ queried = NoQuery
    /\ sound_events = <<>>
    /\ decoded = <<>>
    /\ SchedIdle /\ MixIdle /\ OutIdle

\* report_progress(5); let bms = Bms::parse(bms_text)
Parse ==
    /\ pc = "parse"
    /\ IF BmsParse(bms_text) = ParsePanic
       THEN pc' = "returned" /\ result' = "panic" /\ UNCHANGED bms
       ELSE pc' = "build" /\ bms' = BmsParse(bms_text) /\ UNCHANGED result
    /\ on_progress_calls' = ReportProgress(on_progress_calls, 5)
    /\ UNCHANGED <<bms_text, use_float32, tempo_map, queried, schedVars, mixVars>>
    /\ UNCHANGED <<fetched, chan, pending, next_ci, emitted, on_chunk_calls>>

\* let tempo_map = build_tempo_map(&bms); report_progress(10)
BuildTempoMap ==
    /\ pc = "build"
    /\ tempo_map' = build_tempo_map(bms)
    /\ pc' = "built"
    /\ on_progress_calls' = ReportProgress(on_progress_calls, 10)
    /\ UNCHANGED <<bms_text, use_float32, bms, queried, schedVars, mixVars>>
    /\ UNCHANGED <<fetched, chan, pending, next_ci, emitted, on_chunk_calls, result>>

\* tempo_map.get_timestamp(measure, position)
GetTimestamp(measure, position) ==
    /\ pc = "built"
    /\ \E t \in get_timestamp(tempo_map, measure, position) :
           queried' = [measure |-> measure, position |-> position, timestamp |-> t]
    /\ pc' = "queried"
    /\ UNCHANGED <<bms_text, use_float32, bms, tempo_map, schedVars, mixVars, outVars>>

QueryPositions == {0, PosDen \div 2}

NextTempo ==
    \/ Parse
    \/ BuildTempoMap
    \/ \E measure \in 0..(MaxTempoMeasure + 1), position \in QueryPositions :
           GetTimestamp(measure, position)

SpecTempo == InitTempo /\ [][NextTempo]_vars

(***************************************************************************)
(* Claims on the tempo map                                                 *)
(***************************************************************************)
\* the chart of the STOP scenario: #BPM 60, #STOP01 48 and the one message #00009:01
StopScenarioText ==
    <<SectionLine("HEADER FIELD"), HeaderLine(K_BPM, "60")>> \o TableLines
        \o <<SectionLine("MAIN DATA FIELD"), DataLine(Mmm(0), Id("0", "9"), Id("0", "1"))>>

\* C4: in the STOP scenario (BPM 60, a one-beat STOP at measure 0 position 0, no other
\* tempo change) get_timestamp(0, 0) is 0 s and get_timestamp(1, 0) is 5.0 s: four
\* beats of 1 s plus the one-beat stop.
C4_StopScenario ==
    (pc = "queried" /\ bms_text = StopScenarioText /\ queried.position = 0)
        => /\ queried.measure = 0 => queried.timestamp = Fin(0)
           /\ queried.measure = 1 => queried.timestamp = Fin(5 * TimeDen)

\* C5: for every chart Bms::parse can produce, adjacent anchors of TempoMap.events are
\* ordered by (measure, position) and their timestamps do not decrease.
C5_AnchorsMonotone ==
    pc \in {"built", "queried"}
        => \A i \in 1..(Len(tempo_map.events) - 1) :
               /\ KeyLe(tempo_map.events[i], tempo_map.events[i + 1])
               /\ FLe(tempo_map.events[i].timestamp_sec, tempo_map.events[i + 1].timestamp_sec)

\* the chart text has a "#BPM <value>" line in its header section
HasBpmLine ==
    \E i \in DOMAIN bms_text :
        bms_text[i].kind = "header" /\ ToUppercase(bms_text[i].key) = K_BPM

\* C6: when the chart text has no #BPM header line the parsed header's base BPM is
\* 120.0 and the first anchor of the tempo map has bpm 120.
C6_DefaultBpm ==
    (pc \in {"build", "built", "queried"} /\ ~HasBpmLine)
        => /\ bms.header.bpm = 120
           /\ pc # "build" => tempo_map.events[1].bpm = 120

\* C13: get_timestamp returns a value for every measure from base_measure on, also
\* beyond the largest measure of the chart, with no out-of-range access to mult_vec or
\* cum_mult, and returns 0 for a measure below base_measure.
C13_TimestampTotal ==
    pc = "queried"
        => /\ queried.timestamp # Panic
           /\ queried.measure < tempo_map.base_measure => queried.timestamp = Fin(0)

\* the chart has base BPM 120, no measure multiplier, no stop and no tempo change
PlainChart ==
    /\ bms.header.bpm = 120
    /\ bms.measure_multipliers = EmptyFn
    /\ CollectStops(bms, 1) = <<>>
    /\ CollectTempoChanges(bms, 1) = <<>>

\* C15: on a chart with base BPM 120, no multiplier, no stop and no tempo change,
\* get_timestamp(m, p) is (m - base_measure + p) * 2.0 seconds for every measure m from
\* base_measure to the chart's largest measure and every position p.
C15_IdentityLaw ==
    (/\ pc = "queried"
     /\ PlainChart
     /\ queried.measure >= tempo_map.base_measure
     /\ queried.measure <= MaxMeasure(bms))
        => queried.timestamp =
               Fin(((queried.measure - tempo_map.base_measure) * PosDen + queried.position)
                   * 2 * MultDen)

\* a plain chart with messages in measures 0 and 2, queried at measure 2, position 1/2:
\* 5.0 s, one whole measure lying between the anchor's measure and the target's
C15_Witness ==
    /\ pc = "queried"
    /\ PlainChart
    /\ tempo_map.base_measure = 0
    /\ MaxMeasure(bms) = 2
    /\ queried = [measure |-> 2, position |-> PosDen \div 2, timestamp |-> Fin(5 * TimeDen)]

\* the chart with the length multiplier of every measure doubled (1.0 where none is
\* given), and its tempo map
DoubledBms ==
    [bms EXCEPT !.measure_multipliers =
        [m \in (BaseMeasure(bms)..MaxMeasure(bms)) \cup DOMAIN bms.measure_multipliers |->
            2 * UnwrapOr(Get(bms.measure_multipliers, m), One)]]
DoubledMap == build_tempo_map(DoubledBms)

\* 2.0 * t
Twice(t) == IF t.k = "fin" THEN Fin(2 * t.v) ELSE t

\* the anchors of the doubled map have the keys and tempi of the original ones and
\* twice their timestamps
AnchorsDoubled ==
    /\ Len(DoubledMap.events) = Len(tempo_map.events)
    /\ \A i \in DOMAIN tempo_map.events :
           /\ DoubledMap.events[i].measure = tempo_map.events[i].measure
           /\ DoubledMap.events[i].position = tempo_map.events[i].position
           /\ DoubledMap.events[i].bpm = tempo_map.events[i].bpm
           /\ DoubledMap.events[i].timestamp_sec = Twice(tempo_map.events[i].timestamp_sec)

\* C16 as claimed: for every chart, with any tempo changes and any stops, doubling
\* every measure's multiplier gives anchors at the same keys with twice the timestamps.
C16_Original == pc = "built" => AnchorsDoubled

\* C16 amended: for every chart with any tempo changes and no STOP event, doubling
\* every measure's multiplier gives anchors at the same keys with twice the timestamps.
C16_Amended == (pc = "built" /\ CollectStops(bms, 1) = <<>>) => AnchorsDoubled

\* a chart with a multiplier line and a tempo change after the first measure, no stop
C16_Witness ==
    /\ pc = "built"
    /\ CollectStops(bms, 1) = <<>>
    /\ bms.measure_multipliers # EmptyFn
    /\ Len(tempo_map.events) >= 3
    /\ \E i \in DOMAIN tempo_map.events :
           /\ tempo_map.events[i].measure = 2
           /\ tempo_map.events[i].timestamp_sec.k = "fin"
           /\ tempo_map.events[i].timestamp_sec.v > 0

\* the sorted tempo changes (the seed first) and the sorted stops of the chart
TempoChangesOf(b) ==
    SortByKey(<<RawTempoChange(BaseMeasure(b), 0, b.header.bpm)>> \o CollectTempoChanges(b, 1))
StopsOf(b) == SortByKey(CollectStops(b, 1))

\* the BPM in effect at a key: that of the last tempo change at or before it
BpmInEffect(b, key) ==
    LET before == {i \in DOMAIN TempoChangesOf(b) : KeyLe(TempoChangesOf(b)[i], key)}
    IN  TempoChangesOf(b)[SetMax(before)].bpm

\* the chart with no STOP object resolving, and the sum of the durations of the stops
\* that lie before a key
NoStopBms == [bms EXCEPT !.header.stop_table = EmptyFn]
RECURSIVE StopSecBefore(_, _, _)
StopSecBefore(b, key, i) ==
    IF i > Len(StopsOf(b)) THEN Fin(0)
    ELSE FAdd(IF KeyLt(StopsOf(b)[i], key)
              THEN StopDurationSec(StopsOf(b)[i].duration_192nds, BpmInEffect(b, StopsOf(b)[i]))
              ELSE Fin(0),
              StopSecBefore(b, key, i + 1))

\* C21: every resolving channel-09 token gives exactly one anchor at its position, with
\* the BPM in effect there, and a position after the stops is later by their durations
\* than it is in the chart without them.
C21_EveryStopApplied ==
    /\ pc \in {"built", "queried"} =>
           /\ Len(tempo_map.events) = Len(TempoChangesOf(bms)) + Len(StopsOf(bms))
           /\ \A i \in DOMAIN StopsOf(bms) :
                  \E j \in DOMAIN tempo_map.events :
                      /\ tempo_map.events[j].measure = StopsOf(bms)[i].measure
                      /\ tempo_map.events[j].position = StopsOf(bms)[i].position
                      /\ tempo_map.events[j].bpm = BpmInEffect(bms, StopsOf(bms)[i])
    /\ (pc = "queried" /\ queried.timestamp # Panic /\ bms.header.bpm > 0) =>
           \E t \in get_timestamp(build_tempo_map(NoStopBms), queried.measure, queried.position) :
               queried.timestamp = FAdd(t, StopSecBefore(bms, queried, 1))

\* the length multiplier of a measure, and the musical length between two keys
\* (from <= to), in units of 1 / (PosDen * MultDen) measure
MultOf(b, m) == UnwrapOr(Get(b.measure_multipliers, m), One)
RECURSIVE WholeMeasures(_, _, _)
WholeMeasures(b, lo, hi) ==
    IF lo > hi THEN 0 ELSE MultOf(b, lo) * PosDen + WholeMeasures(b, lo + 1, hi)
MusicalBetween(b, from, to) ==
    IF from.measure = to.measure THEN (to.position - from.position) * MultOf(b, from.measure)
    ELSE (PosDen - from.position) * MultOf(b, from.measure)
             + WholeMeasures(b, from.measure + 1, to.measure - 1)
             + to.position * MultOf(b, to.measure)

\* the time of a key: each stretch between consecutive tempo changes at or before the
\* key, and the last one up to the key, at the BPM of the change that opens it
RECURSIVE PiecewiseSec(_, _, _)
PiecewiseSec(b, key, i) ==
    LET changes == TempoChangesOf(b)
        last == i = Len(changes) \/ ~KeyLe(changes[i + 1], key)
    IN  IF last THEN MeasuresToSec(MusicalBetween(b, changes[i], key), changes[i].bpm)
        ELSE FAdd(MeasuresToSec(MusicalBetween(b, changes[i], changes[i + 1]), changes[i].bpm),
                  PiecewiseSec(b, key, i + 1))

\* a chart with a positive header BPM and no stop
SteadyChart == bms.header.bpm > 0 /\ CollectStops(bms, 1) = <<>>

\* every non-"00" channel-03 object at index i of N is a tempo change at position i / N
\* with its hex value, and a "00" object is none
Channel03Changes ==
    \A k \in DOMAIN bms.messages :
        bms.messages[k].channel = 3 =>
            \A i \in 0..(Len(bms.messages[k].objects) - 1) :
                LET object == bms.messages[k].objects[i + 1]
                    change == RawTempoChange(bms.messages[k].measure,
                                             Position(i, Len(bms.messages[k].objects)),
                                             DigitsValue(object, 16, 0))
                IN  (\E j \in DOMAIN TempoChangesOf(bms) :
                         j > 1 /\ TempoChangesOf(bms)[j] = change /\ change.bpm \in 1..U8_MAX)
                        <=> ~EqIgnoreAsciiCase(object, ZeroId)

\* C22: a channel-03 token with hex value v at index i of N sets the BPM to v from
\* position i / N of its measure on, a "00" token sets nothing, and get_timestamp of any
\* position at or after a tempo change is the time up to the last change before it at
\* the earlier tempi plus the remaining musical time at that change's BPM.
C22_PiecewiseTempo ==
    /\ (pc \in {"built", "queried"} /\ SteadyChart /\ CollectTempoChanges(bms, 1) # <<>>) =>
           Channel03Changes
    /\ (/\ pc = "queried"
        /\ SteadyChart
        /\ \E j \in 2..Len(TempoChangesOf(bms)) : KeyLe(TempoChangesOf(bms)[j], queried)) =>
           queried.timestamp = PiecewiseSec(bms, queried, 1)

\* the queried position is that of a stop of the chart
QueriedAtStop ==
    \E i \in DOMAIN StopsOf(bms) :
        /\ StopsOf(bms)[i].measure = queried.measure
        /\ StopsOf(bms)[i].position = queried.position

\* C30: get_timestamp at the position of a STOP returns the time before that pause: the
\* time of the position in the chart without stops plus the durations of the stops
\* that lie strictly before it, whether or not a tempo change follows the STOP.
C30_StopPositionNotDelayed ==
    (/\ pc = "queried"
     /\ bms.header.bpm > 0
     /\ queried.timestamp # Panic
     /\ QueriedAtStop) =>
        \E t \in get_timestamp(build_tempo_map(NoStopBms), queried.measure, queried.position) :
            queried.timestamp = FAdd(t, StopSecBefore(bms, queried, 1))

(***************************************************************************)
(* Bms::parse on texts with section markers, misplaced and failing lines   *)
(* (SpecParse)                                                             *)
(***************************************************************************)
\* the largest number of lines of a text
MaxParseLines == 4

\* "#001010101": a data line with no ':'
NoColonLine == RawLine(<<"#", "0", "0", "1", "0", "1", "0", "1", "0", "1">>)
\* '#', U+00E9, "0101:01": bytes 1..4 hold U+00E9 and "0", no number
AccentLine == RawLine(<<"#", LatinEAcute, "0", "1", "0", "1", ":", "0", "1">>)
\* '#', U+3042, U+3042, ":01": byte offset 6 lies inside the second character
KanaLine == RawLine(<<"#", HiraganaA, HiraganaA, ":", "0", "1">>)

\* the section markers (one of an unknown section) and the lines of the texts: a
\* header line, a message, a multiplier, an odd-length object string, a non-numeric
\* measure, and the raw lines
ParsePool ==
    {SectionLine("HEADER FIELD"), SectionLine("MAIN DATA FIELD"), SectionLine("EXPANSION FIELD"),
     HeaderLine(K_BPM, "60"),
     DataLine(Mmm(1), Id("0", "1"), Id("0", "1")),
     DataLine(Mmm(0), Id("0", "2"), <<"0", ".", "5">>),
     DataLine(Mmm(1), Id("0", "1"), <<"0", "1", "0">>),
     DataLine(<<"0", "x", "1">>, Id("0", "1"), Id("0", "1")),
     NoColonLine, AccentLine, KanaLine}

InitParse ==
    /\ pc = "parse"
    /\ on_progress_calls = <<>>
    /\ bms_text \in SeqsUpTo(ParsePool, MaxParseLines)
    /\ use_float32 = FALSE
    /\ bms = NoBms
    /\ tempo_map = NoTempoMap
    /\ queried = NoQuery
    /\ sound_events = <<>>
    /\ decoded = <<>>
    /\ SchedIdle /\ MixIdle /\ OutIdle

NextParse == Parse

SpecParse == InitParse /\ [][NextParse]_vars

\* the section in force at line i, going by the markers above it
RECURSIVE FieldAt(_, _)
FieldAt(lines, i) ==
    IF i = 1 THEN "Unknown"
    ELSE IF lines[i - 1].kind = "section"
         THEN (CASE lines[i - 1].name = "HEADER FIELD" -> "Header"
                 [] lines[i - 1].name = "MAIN DATA FIELD" -> "Data"
                 [] OTHER -> "Unknown")
         ELSE FieldAt(lines, i - 1)

\* the line fails as a data line: it has no ':' (a header line, a raw line without
\* one), its measure is no number, or its object string has an odd length
FailsAsData(line) ==
    \/ line.kind \in {"header", "raw"}
    \/ /\ line.kind = "data"
       /\ \/ \E k \in DOMAIN line.mmm : IndexIn(DecDigits, line.mmm[k]) = 0
          \/ (line.cc # Id("0", "2") /\ Len(line.rest) % 2 = 1)

\* the lines that stay when those for which Drop(lines, i) holds are deleted
Without(lines, Drop(_, _)) ==
    LET kept == {i \in DOMAIN lines : ~Drop(lines, i)}
    IN  [k \in 1..Cardinality(kept) |->
            lines[CHOOSE i \in kept : Cardinality({j \in kept : j <= i}) = k]]

SkippedOrFailed(lines, i) ==
    /\ lines[i].kind # "section"
    /\ \/ FieldAt(lines, i) = "Unknown"
       \/ (FieldAt(lines, i) = "Data" /\ FailsAsData(lines[i]))
NotUnderHeader(lines, i) == lines[i].kind # "section" /\ FieldAt(lines, i) # "Header"
NotUnderData(lines, i) == lines[i].kind # "section" /\ FieldAt(lines, i) # "Data"

\* C19: Bms::parse returns Ok for every text; the header comes from the lines under
\* HEADER FIELD alone, the messages and multipliers from the lines under MAIN DATA
\* FIELD alone; and the result equals that of the text with the lines outside a known
\* section and the failing data lines (no colon, non-numeric measure, odd-length
\* object string) deleted.
C19_ParseLineLocal ==
    pc # "parse" =>
        /\ result # "panic"
        /\ bms = BmsParse(Without(bms_text, SkippedOrFailed))
        /\ bms.header = BmsParse(Without(bms_text, NotUnderHeader)).header
        /\ bms.messages = BmsParse(Without(bms_text, NotUnderData)).messages
        /\ bms.measure_multipliers = BmsParse(Without(bms_text, NotUnderData)).measure_multipliers

(***************************************************************************)
(* wasm.rs: filename_to_id; timeline.rs: get_timestamp_samples,            *)
(* extract_sound_events                                                    *)
(***************************************************************************)
\* the asset paths of the model, in the order of String::cmp
FilenameOrder == <<"a.wav", "b.wav", "c.wav">>
FilenameRank(f) == CHOOSE r \in DOMAIN FilenameOrder : FilenameOrder[r] = f

\* filenames: the values of audio_files, sorted and deduplicated
Filenames(b) == {b.header.audio_files[id] : id \in DOMAIN b.header.audio_files}

\* filename_to_id: each filename to its index in the sorted, deduplicated list
filename_to_id(b) ==
    [f \in Filenames(b) |-> Cardinality({g \in Filenames(b) : FilenameRank(g) < FilenameRank(f)})]

\* (x * sample_rate as f64).round() as usize for a finite or NaN x: half away from
\* zero, then a cast that sends NaN and negative values to 0
RoundAsUsize(x, sample_rate) ==
    IF x.k = "fin" /\ x.v > 0
    THEN (2 * x.v * sample_rate + TimeDen) \div (2 * TimeDen)
    ELSE 0

\* the values get_timestamp_samples(measure, position, sample_rate) can return
get_timestamp_samples(tm, measure, position, sample_rate) ==
    {RoundAsUsize(t, sample_rate) : t \in get_timestamp(tm, measure, position)}

\* ch == 1 || 37..=45 || 73..=81 || 181..=189 || 217..=225
LnChannel(ch) == ch \in 181..189 \/ ch \in 217..225
AllowedChannel(ch) == ch = 1 \/ ch \in 37..45 \/ ch \in 73..81 \/ LnChannel(ch)

\* the tokens the two for loops visit, in order: <<message index, token index>>
RECURSIVE TokenStream(_, _)
TokenStream(b, k) ==
    IF k > Len(b.messages) THEN <<>>
    ELSE (IF AllowedChannel(b.messages[k].channel)
          THEN [i \in 1..Len(b.messages[k].objects) |-> <<k, i - 1>>]
          ELSE <<>>) \o TokenStream(b, k + 1)

\* audio.get(object.as_str()) and then filename_to_id.get(filename)
KeyIdOf(b, object) ==
    IF object \in DOMAIN b.header.audio_files
    THEN Get(filename_to_id(b), b.header.audio_files[object])
    ELSE None

\* sound_events.push(SoundEvent { key_id: kid, start: start_sample, end: None }) if the id resolves
PushIfResolved(events, b, object, start_sample) ==
    IF IsSome(KeyIdOf(b, object))
    THEN Append(events, SoundEvent(Unwrap(KeyIdOf(b, object)), start_sample, None))
    ELSE events

Remove(map, key) == [x \in DOMAIN map \ {key} |-> map[x]]

\* object.as_str().eq_ignore_ascii_case(ln_end_id) for Some(ln_end_id)
IsLnEndNever(object, ln_end_id_opt) == FALSE
IsLnEnd(object, ln_end_id_opt) ==
    IsSome(ln_end_id_opt) /\ EqIgnoreAsciiCase(object, Unwrap(ln_end_id_opt))

\* the set of open ids after a token with this id: a closer removes it, an opener inserts it
ToggleOpenKeep(entry, id) == entry \cup {id}
ToggleOpen(entry, id) == IF id \in entry THEN entry \ {id} ELSE entry \cup {id}

\* mutant of ExtractObject: the open ids of every long-note channel are kept under one key
ExtractObjectShared(st, b, message, i, object_time, start_sample) ==
    LET ch == message.channel
        object == message.objects[i + 1]
        is_zero == EqIgnoreAsciiCase(object, ZeroId)
    IN  IF LnChannel(ch)
        THEN IF UnwrapOr(b.header.ln_type, 1) = 2
             THEN IF IsLnEnd(object, b.header.ln_obj)
                  THEN [st EXCEPT !.ln_56_active = Remove(@, ch)]
                  ELSE IF ~is_zero
                  THEN [st EXCEPT
                           !.ln_56_active =
                               IF ch \notin DOMAIN @ /\ object \in DOMAIN b.header.audio_files
                               THEN Insert(@, ch, <<b.header.audio_files[object], object_time>>)
                               ELSE @,
                           !.sound_events = PushIfResolved(@, b, object, start_sample)]
                  ELSE [st EXCEPT !.ln_56_active = Remove(@, ch)]
             ELSE IF is_zero THEN st
                  ELSE LET entry == UnwrapOr(Get(st.ln_56_open_ids, 0), {})
                           id == ToUppercase(object)
                       IN  [st EXCEPT
                               !.ln_56_open_ids = Insert(@, 0, ToggleOpen(entry, id)),
                               !.sound_events = IF id \in entry THEN @
                                                ELSE PushIfResolved(@, b, object, start_sample)]
        ELSE [st EXCEPT !.sound_events = PushIfResolved(@, b, object, start_sample)]

\* the body of the inner loop for one token; st holds sound_events and the long-note maps
ExtractObject(st, b, message, i, object_time, start_sample) ==
    LET ch == message.channel
        object == message.objects[i + 1]
        is_zero == EqIgnoreAsciiCase(object, ZeroId)
    IN  IF LnChannel(ch)
        THEN IF UnwrapOr(b.header.ln_type, 1) = 2
             THEN IF IsLnEnd(object, b.header.ln_obj)
                  THEN [st EXCEPT !.ln_56_active = Remove(@, ch)]
                  ELSE IF ~is_zero
                  THEN [st EXCEPT
                           !.ln_56_active =
                               IF ch \notin DOMAIN @ /\ object \in DOMAIN b.header.audio_files
                               THEN Insert(@, ch, <<b.header.audio_files[object], object_time>>)
                               ELSE @,
                           !.sound_events = PushIfResolved(@, b, object, start_sample)]
                  ELSE [st EXCEPT !.ln_56_active = Remove(@, ch)]
             ELSE IF is_zero THEN st
                  ELSE LET entry == UnwrapOr(Get(st.ln_56_open_ids, ch), {})
                           id == ToUppercase(object)
                       IN  [st EXCEPT
                               !.ln_56_open_ids = Insert(@, ch, ToggleOpen(entry, id)),
                               !.sound_events = IF id \in entry THEN @
                                                ELSE PushIfResolved(@, b, object, start_sample)]
        ELSE [st EXCEPT !.sound_events = PushIfResolved(@, b, object, start_sample)]

\* start_sample = get_timestamp_samples(m, position, sample_rate) * channels
StartSample(frames, channels) == frames * channels

\* one iteration of the inner loop of extract_sound_events; an index panic of
\* get_timestamp, or an infinite time (usize::MAX * channels overflows), ends the call
ExtractToken ==
    /\ pc = "built"
    /\ cursor < Len(TokenStream(bms, 1))
    /\ LET at == TokenStream(bms, 1)[cursor + 1]
           message == bms.messages[at[1]]
           position == Position(at[2], Len(message.objects))
       IN  \E object_time \in get_timestamp(tempo_map, message.measure, position) :
               IF object_time.k \in {"panic", "inf"}
               THEN /\ pc' = "returned"
                    /\ result' = "panic"
                    /\ UNCHANGED schedVars
               ELSE LET st == ExtractObject(
                                  [sound_events |-> sound_events, ln_56_active |-> ln_56_active,
                                   ln_56_open_ids |-> ln_56_open_ids],
                                  bms, message, at[2], object_time,
                                  StartSample(RoundAsUsize(object_time, MIX_SR), MIX_CH))
                    IN  /\ sound_events' = st.sound_events
                        /\ ln_56_active' = st.ln_56_active
                        /\ ln_56_open_ids' = st.ln_56_open_ids
                        /\ cursor' = cursor + 1
                        /\ UNCHANGED <<pc, result>>
    /\ UNCHANGED <<chartVars, mixVars, fetched, chan, pending, next_ci, emitted, on_chunk_calls,
                   on_progress_calls>>

\* extract_sound_events returns; if sound_events.is_empty() { return Err("No sound events found") }
CheckSoundEvents ==
    /\ pc = "built"
    /\ cursor = Len(TokenStream(bms, 1))
    /\ IF sound_events = <<>>
       THEN pc' = "returned" /\ result' = "No sound events found"
       ELSE pc' = "fetch" /\ UNCHANGED result
    /\ UNCHANGED <<chartVars, schedVars, mixVars, fetched, chan, pending, next_ci, emitted,
                   on_chunk_calls, on_progress_calls>>

\* the chart of the measure multiplier scenario: #BPM 120, #00002:0.5, no stop and no
\* tempo change, and a note at (measure 1, position 0)
MultiplierScenario ==
    /\ bms.header.bpm = 120
    /\ DOMAIN bms.measure_multipliers = {0}
    /\ bms.measure_multipliers[0] = One \div 2
    /\ CollectStops(bms, 1) = <<>>
    /\ CollectTempoChanges(bms, 1) = <<>>
    /\ \E k \in DOMAIN bms.messages : bms.messages[k].measure = 1 /\ bms.messages[k].channel = 1

\* C17: with #BPM 120 and #00002:0.5 a note at (measure 1, position 0) starts at
\* exactly 1.0 s, that is at frame MIX_SR, whether or not a message is charted in
\* measure 0.
C17_MultiplierScenario ==
    (pc = "queried" /\ MultiplierScenario /\ queried.measure = 1 /\ queried.position = 0)
        => /\ queried.timestamp = Fin(TimeDen)
           /\ RoundAsUsize(queried.timestamp, MIX_SR) = MIX_SR

(***************************************************************************)
(* The scheduler on charts with long-note channels (SpecLN)                *)
(***************************************************************************)
\* bound of the charts of the scheduler model: the largest measure
MaxLnMeasure == 1

\* #BPM 120 and three assets; the key "wav0a" is registered as id 0A
LnAssetLines ==
    <<HeaderLine(K_BPM, "120"),
      HeaderLine(K_WAV \o Id("0", "1"), "a.wav"),
      HeaderLine(K_WAV \o Id("0", "2"), "b.wav"),
      HeaderLine(<<"w", "a", "v", "0", "a">>, "c.wav")>>

\* the #LNTYPE / #LNOBJ lines: none, or a long-note type with or without a terminator id
LnTypeLines ==
    {<<>>,
     <<HeaderLine(K_LNTYPE, "1"), HeaderLine(K_LNOBJ, Id("0", "2"))>>,
     <<HeaderLine(K_LNTYPE, "2"), HeaderLine(K_LNOBJ, Id("0", "2"))>>,
     <<HeaderLine(K_LNTYPE, "2"), HeaderLine(K_LNOBJ, Id("0", "a"))>>,
     <<HeaderLine(K_LNTYPE, "2")>>,
     <<HeaderLine(K_LNTYPE, "3"), HeaderLine(K_LNOBJ, Id("0", "2"))>>}

\* a rest, three registered ids (one also written in lower case)
LnTokens == {ZeroId, Id("0", "1"), Id("0", "2"), Id("0", "a"), Id("0", "A")}

\* the token lists of a lone message: up to two tokens, and the three-token scenarios
LnObjects ==
    SeqsFromTo(LnTokens, 1, 2)
        \cup {<<Id("0", "1"), ZeroId, Id("0", "1")>>,
              <<Id("0", "1"), ZeroId, Id("0", "2")>>,
              <<Id("0", "1"), Id("0", "1"), Id("0", "1")>>}

\* the token lists of a message of a pair: one token, or two upper-case ones
LnPairObjects ==
    SeqsFromTo(LnTokens, 1, 1) \cup SeqsFromTo({ZeroId, Id("0", "1"), Id("0", "2")}, 2, 2)

\* channel 01 (a plain note lane) and the long-note lanes 51 and 61 (181 and 217)
LnChannels == {Id("0", "1"), Id("5", "1"), Id("6", "1")}
LnDataLines(measures, objects) ==
    {DataLine(Mmm(m), cc, Concat(objs)) : m \in measures, cc \in LnChannels, objs \in objects}

\* no message, one message in measure 0, or one in measure 0 and a second in measure 0 or 1
LnMessageLines ==
    {<<>>} \cup {<<l>> : l \in LnDataLines({0}, LnObjects)}
        \cup {<<l1, l2>> : l1 \in LnDataLines({0}, LnPairObjects),
                           l2 \in LnDataLines(0..MaxLnMeasure, LnPairObjects)}

LnTexts ==
    {<<SectionLine("HEADER FIELD")>> \o LnAssetLines \o tl
        \o <<SectionLine("MAIN DATA FIELD")>> \o msgs :
        tl \in LnTypeLines, msgs \in LnMessageLines}

InitLN ==
    /\ pc = "parse"
    /\ on_progress_calls = <<>>
    /\ bms_text \in LnTexts
    /\ use_float32 = FALSE
    /\ bms = NoBms
    /\ tempo_map = NoTempoMap
    /\ queried = NoQuery
    /\ sound_events = <<>>
    /\ decoded = <<>>
    /\ SchedIdle /\ MixIdle /\ OutIdle

NextLN ==
    \/ Parse
    \/ BuildTempoMap
    \/ ExtractToken
    \/ CheckSoundEvents

SpecLN == InitLN /\ [][NextLN]_vars

(***************************************************************************)
(* Claims on the long-note rules                                           *)
(***************************************************************************)
\* the tokens walked so far, by their place in the walk
Walked == SubSeq(TokenStream(bms, 1), 1, cursor)
MessageAt(j) == bms.messages[Walked[j][1]]
ChannelAt(j) == MessageAt(j).channel
TokenAt(j) == MessageAt(j).objects[Walked[j][2] + 1]

\* which occurrence of its id, on its channel, the j-th walked token is
Occurrence(j) ==
    Cardinality({i \in 1..j : /\ ChannelAt(i) = ChannelAt(j)
                              /\ ToUppercase(TokenAt(i)) = ToUppercase(TokenAt(j))})

\* the token, as written, is registered as an audio file
Resolves(token) == token \in DOMAIN bms.header.audio_files

\* the event a token emits when it emits: its source, at its own start
EventOf(j) ==
    LET position == Position(Walked[j][2], Len(MessageAt(j).objects))
        t == CHOOSE t \in get_timestamp(tempo_map, MessageAt(j).measure, position) : TRUE
    IN  SoundEvent(filename_to_id(bms)[bms.header.audio_files[TokenAt(j)]],
                   RoundAsUsize(t, MIX_SR) * MIX_CH, None)

\* long-note type 1: on a long-note channel the odd occurrences of an id sound
Type1Emits(j) ==
    IF LnChannel(ChannelAt(j))
    THEN TokenAt(j) # ZeroId /\ Occurrence(j) % 2 = 1 /\ Resolves(TokenAt(j))
    ELSE Resolves(TokenAt(j))

RECURSIVE Type1Events(_)
Type1Events(n) ==
    IF n = 0 THEN <<>>
    ELSE Type1Events(n - 1) \o (IF Type1Emits(n) THEN <<EventOf(n)>> ELSE <<>>)

\* the ids walked an odd number of times on a channel
OddIds(ch) ==
    {ToUppercase(TokenAt(j)) :
        j \in {i \in 1..cursor : /\ ChannelAt(i) = ch
                                 /\ TokenAt(i) # ZeroId
                                 /\ Occurrence(i) % 2 = 1
                                 /\ ~\E l \in (i + 1)..cursor :
                                        /\ ChannelAt(l) = ch
                                        /\ ToUppercase(TokenAt(l)) = ToUppercase(TokenAt(i))}}

Extracting == pc \in {"built", "fetch", "returned"} /\ result # "panic"

\* C7: under long-note type 1 (ln_type absent or not 2) the events emitted so far are
\* exactly those of the plain-lane tokens that resolve and, on each long-note channel,
\* of the odd occurrences of a non-"00" id that resolve; even occurrences and "00"
\* emit nothing, and the open set of a channel holds the ids seen an odd number of times.
C7_LnType1 ==
    (Extracting /\ UnwrapOr(bms.header.ln_type, 1) # 2)
        => /\ sound_events = Type1Events(cursor)
           /\ \A ch \in 181..225 :
                  LnChannel(ch) => UnwrapOr(Get(ln_56_open_ids, ch), {}) = OddIds(ch)

\* the scenario tokens ["01", "00", "01"] on channel 181 walked: one event, at position 0
C7_Witness ==
    /\ Extracting
    /\ bms.header.ln_type = None
    /\ bms.messages = <<Message(0, 181, <<Id("0", "1"), ZeroId, Id("0", "1")>>)>>
    /\ cursor = 3
    /\ sound_events = <<SoundEvent(0, 0, None)>>
    /\ ln_56_open_ids[181] = {}

\* the token is header.ln_obj, whatever the case of either
IsLnObj(token) ==
    IsSome(bms.header.ln_obj) /\ ToUppercase(token) = ToUppercase(Unwrap(bms.header.ln_obj))

\* long-note type 2: every token other than ln_obj and "00" that resolves sounds
Type2Emits(j) ==
    IF LnChannel(ChannelAt(j))
    THEN ~IsLnObj(TokenAt(j)) /\ TokenAt(j) # ZeroId /\ Resolves(TokenAt(j))
    ELSE Resolves(TokenAt(j))

RECURSIVE Type2Events(_)
Type2Events(n) ==
    IF n = 0 THEN <<>>
    ELSE Type2Events(n - 1) \o (IF Type2Emits(n) THEN <<EventOf(n)>> ELSE <<>>)

\* C8: under long-note type 2 a long-note-channel token equal to ln_obj (in any case)
\* emits nothing, also when registered as a WAV, and leaves its channel with no active
\* long note; every other non-"00" token that resolves emits one event at its own
\* start, whether or not a long note is active on the channel.
C8_LnType2 ==
    (Extracting /\ bms.header.ln_type = Some(2))
        => /\ sound_events = Type2Events(cursor)
           /\ \A j \in 1..cursor :
                  (/\ LnChannel(ChannelAt(j))
                   /\ IsLnObj(TokenAt(j))
                   /\ ~\E l \in (j + 1)..cursor : ChannelAt(l) = ChannelAt(j))
                      => ChannelAt(j) \notin DOMAIN ln_56_active

\* the scenario #LNOBJ 02 with tokens ["01", "00", "02"] on channel 181 walked
C8_Witness ==
    /\ Extracting
    /\ bms.header.ln_type = Some(2)
    /\ bms.header.ln_obj = Some(Id("0", "2"))
    /\ Id("0", "2") \in DOMAIN bms.header.audio_files
    /\ bms.messages = <<Message(0, 181, <<Id("0", "1"), ZeroId, Id("0", "2")>>)>>
    /\ cursor = 3
    /\ sound_events = <<SoundEvent(0, 0, None)>>
    /\ 181 \notin DOMAIN ln_56_active

\* extract_sound_events(b, tm, ..) as a whole: the loop over the tokens from index k on
RECURSIVE ExtractFrom(_, _, _, _)
ExtractFrom(st, b, tm, k) ==
    IF k > Len(TokenStream(b, 1)) THEN st
    ELSE LET at == TokenStream(b, 1)[k]
             message == b.messages[at[1]]
             position == Position(at[2], Len(message.objects))
             object_time == CHOOSE t \in get_timestamp(tm, message.measure, position) : TRUE
         IN  ExtractFrom(ExtractObject(st, b, message, at[2], object_time,
                                       StartSample(RoundAsUsize(object_time, MIX_SR), MIX_CH)),
                         b, tm, k + 1)
extract_sound_events(b, tm) ==
    ExtractFrom([sound_events |-> <<>>, ln_56_active |-> EmptyMap, ln_56_open_ids |-> EmptyMap],
                b, tm, 1)

\* the chart with only its messages on channel ch, in chart order
OnlyChannel(ch) ==
    [bms EXCEPT !.messages = SelectSeq(bms.messages, LAMBDA m : m.channel = ch)]
ChartChannels == {bms.messages[k].channel : k \in DOMAIN bms.messages}

\* how many times an event occurs in a list of events
CountOf(e, events) == Cardinality({k \in DOMAIN events : events[k] = e})
RECURSIVE SumCounts(_, _)
SumCounts(e, chs) ==
    IF chs = {} THEN 0
    ELSE LET ch == CHOOSE c \in chs : TRUE
         IN  CountOf(e, extract_sound_events(OnlyChannel(ch), tempo_map).sound_events)
                 + SumCounts(e, chs \ {ch})

\* the number of events the channels emit when each is walked alone
RECURSIVE EmittedAlone(_)
EmittedAlone(chs) ==
    IF chs = {} THEN 0
    ELSE LET ch == CHOOSE c \in chs : TRUE
         IN  Len(extract_sound_events(OnlyChannel(ch), tempo_map).sound_events)
                 + EmittedAlone(chs \ {ch})

\* the walk of the chart's tokens is over
Extracted == Extracting /\ cursor = Len(TokenStream(bms, 1))

\* C29: the long-note state of a channel is its own and is carried from message to
\* message: after the walk each channel's open ids (type 1) and active note (type 2)
\* are those of the walk of that channel's messages alone, and the events emitted are,
\* event for event, those the channels emit when each is walked alone.
C29_LnPerChannel ==
    Extracted =>
        /\ \A ch \in ChartChannels :
               LET alone == extract_sound_events(OnlyChannel(ch), tempo_map)
               IN  /\ Get(ln_56_open_ids, ch) = Get(alone.ln_56_open_ids, ch)
                   /\ Get(ln_56_active, ch) = Get(alone.ln_56_active, ch)
        /\ DOMAIN ln_56_open_ids \subseteq ChartChannels
        /\ \A k \in DOMAIN sound_events :
               CountOf(sound_events[k], sound_events) = SumCounts(sound_events[k], ChartChannels)
        /\ Len(sound_events) = EmittedAlone(ChartChannels)

\* type 1: id 01 is opened on channel 181 in measure 0; in measure 1 the same id on
\* channel 217 sounds and opens there, and its second token closes it there; 181 stays open
C29_Witness ==
    /\ Extracted
    /\ bms.header.ln_type # Some(2)
    /\ bms.messages = <<Message(0, 181, <<Id("0", "1")>>),
                        Message(1, 217, <<Id("0", "1"), Id("0", "1")>>)>>
    /\ Len(sound_events) = 2
    /\ ln_56_open_ids[181] = {Id("0", "1")}
    /\ ln_56_open_ids[217] = {}

(***************************************************************************)
(* The scheduler on one data line of any channel code (SpecChan)           *)
(***************************************************************************)
\* the channel codes of the model: tempo and note lanes, the codes next to each
\* range, codes whose base-36 value exceeds 255, and codes that are no number
ChanCodes ==
    {Id("0", "0"), Id("0", "1"), Id("0", "3"), Id("1", "0"), Id("1", "1"), Id("1", "9"),
     Id("1", "A"), Id("2", "0"), Id("2", "1"), Id("2", "9"), Id("2", "a"), Id("5", "0"),
     Id("5", "1"), Id("5", "9"), Id("5", "A"), Id("6", "0"), Id("6", "1"), Id("6", "9"),
     Id("6", "A"), Id("7", "3"), Id("7", "4"), Id("8", "0"), Id("8", "1"), Id("8", "2"),
     Id("D", "1"), Id("Z", "Z"), Id("-", "1"), Id("3", "7")}

\* #BPM 120, an asset under id 01, with or without one under id 00, and the long-note
\* type lines
ChanHeaders ==
    {<<HeaderLine(K_BPM, "120"), HeaderLine(K_WAV \o Id("0", "1"), "a.wav")>> \o z \o tl :
        z \in {<<>>, <<HeaderLine(K_WAV \o ZeroId, "b.wav")>>},
        tl \in {<<>>, <<HeaderLine(K_LNTYPE, "2"), HeaderLine(K_LNOBJ, Id("0", "2"))>>}}

ChanObjects == {<<Id("0", "1")>>, <<ZeroId>>, <<ZeroId, Id("0", "1")>>, <<Id("0", "1"), ZeroId>>}

ChanTexts ==
    {<<SectionLine("HEADER FIELD")>> \o h
        \o <<SectionLine("MAIN DATA FIELD"), DataLine(Mmm(0), cc, Concat(objs))>> :
        h \in ChanHeaders, cc \in ChanCodes, objs \in ChanObjects}

InitChan ==
    /\ pc = "parse"
    /\ on_progress_calls = <<>>
    /\ bms_text \in ChanTexts
    /\ use_float32 = FALSE
    /\ bms = NoBms
    /\ tempo_map = NoTempoMap
    /\ queried = NoQuery
    /\ sound_events = <<>>
    /\ decoded = <<>>
    /\ SchedIdle /\ MixIdle /\ OutIdle

NextChan ==
    \/ Parse
    \/ BuildTempoMap
    \/ ExtractToken
    \/ CheckSoundEvents

SpecChan == InitChan /\ [][NextChan]_vars

\* the channel code of the chart's data line, read as a base-36 number (-1 if it is none)
Base36Code == DigitsValue(bms_text[Len(bms_text)].cc, 36, 0)

\* C26: the data line is visited by extract_sound_events, and can emit, only if its
\* channel code read as a base-36 number is 1 or lies in 37..45, 73..81, 181..189 or
\* 217..225; Message::parse decodes no other code to a channel in those ranges.
C26_NoChannelAlias ==
    pc \notin {"parse", "build"} =>
        /\ \A k \in DOMAIN bms.messages :
               AllowedChannel(bms.messages[k].channel) => AllowedChannel(Base36Code)
        /\ sound_events # <<>> => AllowedChannel(Base36Code)

\* the tokens of the note channels visited so far that are not "00"
NonZeroVisited ==
    Cardinality({k \in 1..cursor :
                    LET at == TokenStream(bms, 1)[k]
                    IN  bms.messages[at[1]].objects[at[2] + 1] # ZeroId})

\* C27: a "00" token on a note channel emits no SoundEvent, also when the header
\* registers an audio file under id 00: the events emitted are at most as many as the
\* visited tokens other than "00".
C27_ZeroIsRest ==
    (pc \notin {"parse", "build"} /\ result # "panic") => Len(sound_events) <= NonZeroVisited

(***************************************************************************)
(* wasm.rs: convert_bms_to_wav, from the asset fetch to the emitted chunks *)
(***************************************************************************)
\* ordered_ids: the key_ids of sound_events, sorted
UsedIds(events) == {events[k].key_id : k \in DOMAIN events}
RECURSIVE SortedIds(_)
SortedIds(ids) ==
    IF ids = {} THEN <<>> ELSE <<SetMin(ids)>> \o SortedIds(ids \ {SetMin(ids)})

\* what the array resolved by get_many_bytes holds for a path: null or undefined,
\* a value that is not a Uint8Array, or bytes (with what decode_audio makes of them:
\* an error, or a buffer of len samples)
Null == [kind |-> "null", audio |-> None]
NotBytes == [kind |-> "other", audio |-> None]
Bytes(audio) == [kind |-> "bytes", audio |-> audio]
FetchValues ==
    {Null, NotBytes, Bytes(None)} \cup {Bytes(Some(len)) : len \in {0, 4, MaxSrcLen}}

\* the ways the fetch as a whole fails (lines 124-139): before the promise is
\* awaited, or at the await and after it
CallErrors == {"get_many_bytes call failed", "get_many_bytes did not return a Promise"}
FetchErrors ==
    CallErrors \cup {"get_many_bytes rejected", "get_many_bytes did not resolve to an Array"}

\* get_many_bytes(paths), report_progress(15) and the await
Fetch ==
    /\ pc = "fetch"
    /\ \/ \E e \in FetchErrors :
              /\ pc' = "returned"
              /\ result' = e
              /\ on_progress_calls' = IF e \in CallErrors THEN on_progress_calls
                                      ELSE ReportProgress(on_progress_calls, 15)
              /\ UNCHANGED fetched
       \/ \E arr \in [1..Cardinality(UsedIds(sound_events)) -> FetchValues] :
              /\ fetched' = arr
              /\ pc' = "decode"
              /\ on_progress_calls' = ReportProgress(on_progress_calls, 15)
              /\ UNCHANGED result
    /\ UNCHANGED <<chartVars, schedVars, mixVars, chan, pending, next_ci, emitted, on_chunk_calls>>

\* mutant of DecodedVec: a source that was skipped keeps one frame of samples
DecodedVecOneFrame(b, ordered_ids, arr) ==
    [k \in 1..Cardinality(Filenames(b)) |->
        IF \E n \in DOMAIN ordered_ids :
               ordered_ids[n] = k - 1 /\ arr[n].kind = "bytes" /\ IsSome(arr[n].audio)
        THEN LET n == CHOOSE n \in DOMAIN ordered_ids : ordered_ids[n] = k - 1
             IN  Decoded(k - 1, Unwrap(arr[n].audio))
        ELSE Decoded(k - 1, MIX_CH)]

\* decoded_vec: an empty buffer for every filename, then the decoded ones by id
DecodedVec(b, ordered_ids, arr) ==
    [k \in 1..Cardinality(Filenames(b)) |->
        IF \E n \in DOMAIN ordered_ids :
               ordered_ids[n] = k - 1 /\ arr[n].kind = "bytes" /\ IsSome(arr[n].audio)
        THEN LET n == CHOOSE n \in DOMAIN ordered_ids : ordered_ids[n] = k - 1
             IN  Decoded(k - 1, Unwrap(arr[n].audio))
        ELSE Decoded(k - 1, 0)]

\* inputs, report_progress(20), the parallel decode, report_progress(50), decoded_pairs
\* and decoded_vec (lines 141-181)
Decode ==
    /\ pc = "decode"
    /\ decoded' = DecodedVec(bms, SortedIds(UsedIds(sound_events)), fetched)
    /\ pc' = "prepare"
    /\ on_progress_calls' = ReportProgress(ReportProgress(on_progress_calls, 20), 50)
    /\ UNCHANGED <<chartVars, schedVars, prepared, bucketed, pre, mixed>>
    /\ UNCHANGED <<fetched, chan, pending, next_ci, emitted, on_chunk_calls, result>>

I16_MAX == 32767
I16_MIN == 0 - 32768

\* convert_to_i16_simd on one sample: (s * i16::MAX as f32).round(), clamped
ToI16(sample) == Max2(I16_MIN, Min2(I16_MAX, sample * I16_MAX))

\* what on_chunk receives for mixed chunk ci: the f32 samples, or their i16 values
ChunkCall(ci, samples, float32) ==
    [kind |-> "chunk", ci |-> ci,
     data |-> IF float32 THEN samples ELSE [k \in DOMAIN samples |-> ToI16(samples[k])]]

\* while let Some(samples2) = pending.remove(&next_ci): the chunks it finds from index from on
DrainNone(pending_map, from) == <<>>
RECURSIVE Drain(_, _)
Drain(pending_map, from) ==
    IF from \in DOMAIN pending_map
    THEN <<pending_map[from]>> \o Drain(pending_map, from + 1)
    ELSE <<>>

\* "Report progress every 10 chunks", scaled
ProgressEvery == 2

\* 65 + ((emitted as f32 / chunk_count as f32) * 30.0) as u32
MixProgress(n, chunk_count) == 65 + (n * 30) \div chunk_count

\* the report that follows the chunk received in turn, when emitted has become n
ProgressAfter(n, chunk_count) ==
    IF n % ProgressEvery = 0 \/ n = chunk_count THEN <<MixProgress(n, chunk_count)>> ELSE <<>>

\* one iteration of the consumer loop: rx.recv(), then either the chunk and the run
\* of pending chunks that follows it are passed to on_chunk (each call returns or
\* throws) with a progress report after the first of them, or the chunk is put in
\* pending; the loop ends when emitted = chunk_count
Recv ==
    /\ pc = "mixed"
    /\ IF chan = <<>>
       THEN /\ pc' = "returned"
            /\ result' = "Ok"
            /\ UNCHANGED <<chan, pending, next_ci, emitted, on_chunk_calls, on_progress_calls>>
       ELSE LET ci == Head(chan)[1]
                samples == Head(chan)[2]
                run == <<samples>> \o Drain(pending, next_ci + 1)
                calls == [k \in DOMAIN run |-> ChunkCall(next_ci + k - 1, run[k], use_float32)]
                reports == ProgressAfter(emitted + 1, Len(bucketed))
            IN  /\ chan' = Tail(chan)
                /\ IF ci # next_ci
                   THEN /\ pending' = Insert(pending, ci, samples)
                        /\ UNCHANGED <<pc, result, next_ci, emitted, on_chunk_calls,
                                       on_progress_calls>>
                   ELSE \/ /\ on_chunk_calls' = on_chunk_calls \o calls
                           /\ on_progress_calls' = on_progress_calls \o reports
                           /\ next_ci' = next_ci + Len(run)
                           /\ emitted' = emitted + Len(run)
                           /\ pending' = [x \in DOMAIN pending \ (next_ci..(next_ci + Len(run) - 1))
                                             |-> pending[x]]
                           /\ IF emitted' < Len(bucketed)
                              THEN UNCHANGED <<pc, result>>
                              ELSE pc' = "returned" /\ result' = "Ok"
                        \/ \E f \in DOMAIN run :
                               /\ on_chunk_calls' = on_chunk_calls \o SubSeq(calls, 1, f)
                               /\ on_progress_calls' = IF f = 1 THEN on_progress_calls
                                                       ELSE on_progress_calls \o reports
                               /\ next_ci' = next_ci + f - 1
                               /\ emitted' = emitted + f - 1
                               /\ pending' = [x \in DOMAIN pending \ (next_ci..(next_ci + f - 1))
                                                 |-> pending[x]]
                               /\ pc' = "returned"
                               /\ result' = "on_chunk error"
    /\ UNCHANGED <<chartVars, schedVars, mixVars, fetched>>

(***************************************************************************)
(* A whole conversion (SpecConv)                                           *)
(***************************************************************************)
\* #BPM 120 and two assets
ConvAssetLines ==
    <<HeaderLine(K_BPM, "120"),
      HeaderLine(K_WAV \o Id("0", "1"), "a.wav"),
      HeaderLine(K_OGG \o Id("0", "2"), "b.wav")>>

\* the token lists of a channel-01 line: none ("#00001:"), a note, an id with no
\* asset, two notes
ConvObjects ==
    {<<>>, <<Id("0", "1")>>, <<Id("0", "5")>>, <<Id("0", "1"), Id("0", "2")>>}
ConvDataLines(measures) ==
    {DataLine(Mmm(m), Id("0", "1"), Concat(objs)) : m \in measures, objs \in ConvObjects}

\* the largest measure of the charts of the conversion model
MaxConvMeasure == 1

\* a text with no section marker at all, and charts of up to two lines
ConvTexts ==
    {<<DataLine(Mmm(0), Id("0", "1"), <<>>)>>}
        \cup {<<SectionLine("HEADER FIELD")>> \o ConvAssetLines
                 \o <<SectionLine("MAIN DATA FIELD")>> \o msgs :
                 msgs \in {<<>>} \cup {<<l>> : l \in ConvDataLines(0..MaxConvMeasure)}
                          \cup {<<l1, l2>> : l1 \in ConvDataLines({0}),
                                             l2 \in ConvDataLines(1..MaxConvMeasure)}}

InitConv ==
    /\ pc = "parse"
    /\ on_progress_calls = <<>>
    /\ bms_text \in ConvTexts
    /\ use_float32 \in BOOLEAN
    /\ bms = NoBms
    /\ tempo_map = NoTempoMap
    /\ queried = NoQuery
    /\ sound_events = <<>>
    /\ decoded = <<>>
    /\ SchedIdle /\ MixIdle /\ OutIdle

NextConv ==
    \/ Parse
    \/ BuildTempoMap
    \/ ExtractToken
    \/ CheckSoundEvents
    \/ Fetch
    \/ Decode
    \/ Prepare
    \/ Bucketize
    \/ Precompute
    \/ WriteHeader
    \/ \E ci \in 0..(Len(mixed) - 1) : MixChunk(ci)
    \/ Recv

SpecConv == InitConv /\ [][NextConv]_vars

\* the consumer loop runs on the calling thread: an iteration that can run does
SpecConvFair == SpecConv /\ WF_vars(Recv)

(***************************************************************************)
(* Claims on the conversion                                                *)
(***************************************************************************)
\* what on_chunk received after the WAV header
ChunkCalls == SubSeq(on_chunk_calls, 2, Len(on_chunk_calls))
ChunkCount == Len(bucketed)
InChan == {chan[k][1] : k \in DOMAIN chan}

\* the resequencing at every step of the consumer loop: the k-th chunk passed to
\* on_chunk is mixed chunk k - 1; a held chunk is one ahead of next_ci; each chunk is
\* in the channel, held, or passed on, and in one place only; a run that returns Ok
\* passed all of them on and holds none
C1_Safe ==
    /\ \A k \in DOMAIN ChunkCalls :
           /\ ChunkCalls[k].kind = "chunk"
           /\ ChunkCalls[k].ci = k - 1
           /\ Len(ChunkCalls[k].data) = Len(Unwrap(mixed[k]))
           /\ use_float32 => ChunkCalls[k].data = Unwrap(mixed[k])
    /\ \A ci \in DOMAIN pending : ci > next_ci /\ pending[ci] = Unwrap(mixed[ci + 1])
    /\ pc = "mixed" =>
           /\ emitted = next_ci /\ emitted = Len(ChunkCalls) /\ emitted < ChunkCount
           /\ InChan \cup DOMAIN pending \cup 0..(next_ci - 1) = 0..(ChunkCount - 1)
           /\ InChan \cap DOMAIN pending = {}
           /\ Cardinality(InChan) = Len(chan)
           /\ \A ci \in InChan : ci >= next_ci
    /\ (pc = "returned" /\ result = "Ok") =>
           /\ emitted = ChunkCount
           /\ Len(ChunkCalls) = ChunkCount
           /\ pending = EmptyMap
           /\ chan = <<>>

\* C1: for every order in which the workers deliver their chunks, on_chunk receives
\* after the header chunk 0, 1, ... in ascending order with none skipped or repeated,
\* an early chunk waits in pending, and the consumer loop ends; when no on_chunk call
\* fails it ends with all chunk_count chunks emitted and pending empty.
C1_Resequenced == [](C1_Safe) /\ ((pc = "mixed") ~> (pc = "returned"))

\* a chunk waits in pending while two lower ones were passed on in order
C1_Witness ==
    /\ pc = "mixed"
    /\ ChunkCount >= 4
    /\ emitted = 2
    /\ pending # EmptyMap
    /\ Len(ChunkCalls) = 2

\* the place of a key_id in ordered_ids, and whether its fetch and decode gave no frame
OrderOf(key_id) == Cardinality({id \in UsedIds(sound_events) : id <= key_id})
SourceSilent(key_id) ==
    LET val == fetched[OrderOf(key_id)]
    IN  ~(val.kind = "bytes" /\ IsSome(val.audio) /\ Unwrap(val.audio) \div MIX_CH > 0)
Fetched == Len(fetched) = Cardinality(UsedIds(sound_events))
AllSilent == \A k \in DOMAIN sound_events : SourceSilent(sound_events[k].key_id)

\* C10: the call returns "No sound events found" exactly when the scheduler yields no
\* event, and "Nothing to mix" exactly when events exist, the fetch resolved, and
\* every referenced source is missing, undecodable or empty; otherwise it goes on.
C10_FatalAborts ==
    /\ pc = "returned" =>
           /\ result = "No sound events found" <=> sound_events = <<>>
           /\ result = "Nothing to mix" <=> (sound_events # <<>> /\ Fetched /\ AllSilent)
    /\ pc \in {"fetch", "decode", "prepare"} => sound_events # <<>>
    /\ pc \in {"bucketize", "precompute", "header", "mix", "mixed"} =>
           sound_events # <<>> /\ Fetched /\ ~AllSilent

\* "Nothing to mix" with two events, one source missing and the other decoded empty
C10_Witness ==
    /\ pc = "returned"
    /\ result = "Nothing to mix"
    /\ Len(sound_events) >= 2
    /\ \E n \in DOMAIN fetched : fetched[n] = Null
    /\ \E n \in DOMAIN fetched : fetched[n] = Bytes(Some(0))

\* the fetch or the decode of the source of a requested key_id failed: the value is
\* null or undefined, or no Uint8Array, or bytes that decode_audio rejects
FailedSource(key_id) ==
    LET val == fetched[OrderOf(key_id)]
    IN  val.kind # "bytes" \/ val.audio = None
KeptEvent(ev) == ~FailedSource(ev.key_id)

\* the same chart with the events of the failed sources removed: its events, the
\* array its fetch resolves to, its decoded_vec and what prepare_events makes of them
KeptEvents == SelectSeq(sound_events, KeptEvent)
KeptIds == SortedIds(UsedIds(KeptEvents))
KeptFetched == [n \in DOMAIN KeptIds |-> fetched[OrderOf(KeptIds[n])]]
KeptDecoded == DecodedVec(bms, KeptIds, KeptFetched)
KeptPrepared == prepare_events(KeptEvents, KeptDecoded)
KeptPre ==
    precompute_overlaps(KeptPrepared.events, KeptDecoded,
                        bucketize_events(KeptPrepared.events, KeptPrepared.total_len),
                        KeptPrepared.total_len)

\* C12: a requested source whose fetch result is null, undefined or no byte array, or
\* whose decode fails, keeps a zero-length buffer; no prepared event references it;
\* the call does not end with an error for it while another event has a non-empty
\* source; and the prepared events, the chunk count and every mixed chunk equal those
\* of the same chart with the events of the failed sources removed.
C12_AssetFailureSkipped ==
    /\ pc \in {"prepare", "bucketize", "precompute", "header", "mix", "mixed"} =>
           \A id \in UsedIds(sound_events) :
               FailedSource(id) => decoded[id + 1] = [buf |-> <<>>, frames |-> 0]
    /\ pc \in {"bucketize", "precompute", "header", "mix", "mixed"} =>
           /\ \A k \in DOMAIN prepared.events : ~FailedSource(prepared.events[k].key_id)
           /\ prepared = KeptPrepared
    /\ (pc = "returned" /\ Fetched /\ ~AllSilent) =>
           result \in {"Ok", "on_chunk error", "Output exceeds WAV 4GB limit"}
    /\ pc \in {"mix", "mixed"} =>
           /\ Len(mixed) = DivCeil(KeptPrepared.total_len, chunk_samples)
           /\ \A c \in DOMAIN mixed :
                  IsSome(mixed[c]) =>
                      Unwrap(mixed[c]) = mix_chunk(c - 1, KeptPrepared.events, KeptDecoded,
                                                   KeptPre, KeptPrepared.total_len)

\* every chunk is mixed for a chart of two events on two sources, one missing or
\* undecodable and the other decoded with samples
C12_Witness ==
    /\ pc = "mixed"
    /\ Len(sound_events) = 2
    /\ Len(KeptEvents) = 1
    /\ Len(prepared.events) = 1
    /\ \E n \in DOMAIN fetched : fetched[n] \in {Null, NotBytes, Bytes(None)}

\* the reports on_progress received after the one that follows the header
ReportedBeforeMix == ReportedBeforePrepare \o <<55, 60, 65>>
LoopReports == SubSeq(on_progress_calls, Len(ReportedBeforeMix) + 1, Len(on_progress_calls))

\* one report for every emitted count up to n that is a multiple of the period or the
\* chunk count
RECURSIVE ReportsDue(_)
ReportsDue(n) ==
    IF n = 0 THEN <<>>
    ELSE ReportsDue(n - 1)
             \o (IF n % ProgressEvery = 0 \/ n = ChunkCount
                 THEN <<MixProgress(n, ChunkCount)>> ELSE <<>>)

\* C14: for every arrival order of the mixed chunks, on_progress is called when the
\* emitted count reaches each multiple of the period and when the final chunk is
\* emitted, so the last progress value of a run that returns Ok is 95.
C14_FinalProgress ==
    /\ (pc = "mixed" \/ (pc = "returned" /\ result = "Ok")) => LoopReports = ReportsDue(emitted)
    /\ (pc = "returned" /\ result = "Ok") => on_progress_calls[Len(on_progress_calls)] = 95

\* the number of samples in the chunk calls of a list of on_chunk calls
RECURSIVE SamplesIn(_)
SamplesIn(calls) ==
    IF calls = <<>> THEN 0 ELSE Len(Head(calls).data) + SamplesIn(Tail(calls))

\* total_len - chunk_samples * (chunk_count - 1)
LastChunkLen == prepared.total_len - chunk_samples * (ChunkCount - 1)

\* C20: once the header is written, chunk_count is the least count of chunk_samples
\* sized chunks that cover total_len; every chunk passed to on_chunk but the last
\* holds chunk_samples samples and the last holds the remainder, between 1 and
\* chunk_samples; after a run that returns Ok the sample bytes passed to on_chunk
\* after the header are as many as the header's data_len.
C20_ChunkSizes ==
    Headers # {} =>
        /\ ChunkCount * chunk_samples >= prepared.total_len
        /\ (ChunkCount - 1) * chunk_samples < prepared.total_len
        /\ LastChunkLen \in 1..chunk_samples
        /\ \A k \in DOMAIN ChunkCalls :
               Len(ChunkCalls[k].data) =
                   IF ChunkCalls[k].ci = ChunkCount - 1 THEN LastChunkLen ELSE chunk_samples
        /\ \A c \in DOMAIN mixed :
               IsSome(mixed[c]) =>
                   Len(mixed[c][1]) = IF c = ChunkCount THEN LastChunkLen ELSE chunk_samples
        /\ (pc = "returned" /\ result = "Ok") =>
               /\ Len(ChunkCalls) = ChunkCount
               /\ \A h \in Headers : SamplesIn(ChunkCalls) * BytesPerSample = h.data_len

\* a run that returned Ok after three chunks, the last of them shorter than the others
C20_Witness ==
    /\ pc = "returned"
    /\ result = "Ok"
    /\ Headers # {}
    /\ Len(ChunkCalls) >= 3
    /\ LastChunkLen < chunk_samples

(***************************************************************************)
(* Conversions that end in a fatal error (SpecFatal): the charts of         *)
(* SpecConv and one whose output is too long for a WAV file                 *)
(***************************************************************************)
\* #BPM 60, measure 0 twice as long, a note in measure 0 and one in measure 1 (8 s later)
LongText ==
    <<SectionLine("HEADER FIELD"), HeaderLine(K_BPM, "60"),
      HeaderLine(K_WAV \o Id("0", "1"), "a.wav"),
      SectionLine("MAIN DATA FIELD"),
      DataLine(Mmm(0), Id("0", "2"), <<"2">>),
      DataLine(Mmm(0), Id("0", "1"), Id("0", "1")),
      DataLine(Mmm(1), Id("0", "1"), Id("0", "1"))>>

InitFatal ==
    /\ pc = "parse"
    /\ on_progress_calls = <<>>
    /\ \/ bms_text \in ConvTexts /\ use_float32 \in BOOLEAN
       \/ bms_text = LongText /\ use_float32 = TRUE
    /\ bms = NoBms
    /\ tempo_map = NoTempoMap
    /\ queried = NoQuery
    /\ sound_events = <<>>
    /\ decoded = <<>>
    /\ SchedIdle /\ MixIdle /\ OutIdle

SpecFatal == InitFatal /\ [][NextConv]_vars

FatalErrors == {"No sound events found", "Nothing to mix", "Output exceeds WAV 4GB limit"}

\* C28: when the call returns "No sound events found", "Nothing to mix" or "Output
\* exceeds WAV 4GB limit", on_chunk has not been called, neither with the header nor
\* with a chunk; and once get_many_bytes is about to be called the call never returns
\* "No sound events found".
C28_NoPartialOutput ==
    /\ []((pc = "returned" /\ result \in FatalErrors) => on_chunk_calls = <<>>)
    /\ []((pc = "returned" /\ result = "No sound events found") => fetched = <<>>)
    /\ [](pc = "fetch" => [](result # "No sound events found"))

\* the size error, returned after the fetch, the decode and the preparation
C28_Witness ==
    /\ pc = "returned"
    /\ result = "Output exceeds WAV 4GB limit"
    /\ fetched # <<>>
    /\ prepared.total_len * 4 > U32_MAX

=============================================================================
